---- MODULE Spec2Model ----
(***************************************************************************)
(* A model of the schema-migration engine:                                 *)
(*   - Migration.apply / Migration.unapply (db/migrations/migration.py)    *)
(*   - the Operation attributes they read (db/migrations/operations/base)  *)
(*   - MigrationRecorder (db/migrations/recorder.py)                       *)
(*                                                                         *)
(* ProjectState objects live in a heap (a sequence of values indexed by    *)
(* reference) so that clone() and in-place mutation by state_forwards keep *)
(* their aliasing behaviour.  The value of a ProjectState is the sequence  *)
(* of state_forwards effects it has received: concrete operations override *)
(* state_forwards, so its effect is left uninterpreted.                    *)
(***************************************************************************)
EXTENDS Integers, Sequences, FiniteSets, TLC

\* ---------------------------------------------------------------- bounds
MaxOps == 2
MaxCalls == 2
MaxRecorderCalls == 4
MaxMutations == 2
MaxCandidates == 3
MaxArgs == 2
MaxBaseCalls == 2
MaxHandlerCalls == 3
MaxPatterns == 2

\* ------------------------------------------------------------ operations
\* Operation.atomic is read with "or" and "is not False": three cases matter.
AtomicValues == {"True", "False", "None"}

\* The class attributes of an Operation that apply/unapply read.
Operation == [reversible : BOOLEAN, reduces_to_sql : BOOLEAN, atomic : AtomicValues]

OperationLists == UNION {[1..n -> Operation] : n \in 0..MaxOps}

\* A Migration instance: its key, its atomic flag and its operations list.
Migration == [app_label : {"app"}, name : {"0001"}, atomic : BOOLEAN,
              operations : OperationLists]

\* Python truthiness of the three values Operation.atomic takes.
Truthy(a) == a = "True"

\* operation.state_forwards(app_label, state): the k-th operation's effect on
\* a ProjectState value (uninterpreted: the effect is recorded in order).
state_forwards(k, s) == Append(s, k)

\* project_state.clone(): a new object holding an equal value.
clone(h, r) == [heap |-> Append(h, h[r]), ref |-> Len(h) + 1]

apply_atomic_operation_migration_wins(m, op) == Truthy(op.atomic) \/ m.atomic

\* apply, line 143
apply_atomic_operation(m, op) ==
    Truthy(op.atomic) \/ (m.atomic /\ op.atomic # "False")

apply_wraps_no_ddl_only(am, m, op) == ~am

\* apply, line 144
apply_wraps(am, m, op) == (~am) /\ apply_atomic_operation(m, op)

apply_skips_never(cs, op) == FALSE

\* apply, lines 129-138: does the loop body "continue" before the snapshot?
apply_skips(cs, op) == cs /\ ~op.reduces_to_sql

\* unapply, line 200
unapply_atomic_operation(m, op) ==
    Truthy(op.atomic) \/ (m.atomic /\ op.atomic # "False")

unapply_wraps_operation_only(am, m, op) == (~am) /\ Truthy(op.atomic)

\* unapply, line 201
unapply_wraps(am, m, op) == (~am) /\ unapply_atomic_operation(m, op)

\* unapply, lines 190-199
unapply_skips(cs, op) == cs /\ ~op.reduces_to_sql

unapply_irreversible_unchecked(op) == FALSE

\* unapply, line 179
unapply_irreversible(op) == ~op.reversible

unapply_preserve_aliased(h, r) == [heap |-> h, ref |-> r]

\* unapply, line 183: new_state = new_state.clone()
unapply_preserve(h, r) == clone(h, r)

to_run_append(tr, k, old, new) ==
    tr \o <<[operation |-> k, old_state |-> old, new_state |-> new]>>

\* unapply, line 186: to_run.insert(0, (operation, old_state, new_state))
to_run_insert(tr, k, old, new) ==
    <<[operation |-> k, old_state |-> old, new_state |-> new]>> \o tr

unapply_return_new_state(ps, ns) == ns

\* unapply, line 209: return project_state
unapply_return(ps, ns) == ps

\* The comment block appended to schema_editor.collected_sql (lines 130-136).
Line(text, k) == [text |-> text, op |-> k]

sql_comments(op, k) ==
    <<Line("--", 0)>>
    \o (IF ~op.reduces_to_sql
        THEN <<Line("-- MIGRATION NOW PERFORMS OPERATION THAT CANNOT BE WRITTEN AS SQL:", 0)>>
        ELSE <<>>)
    \o <<Line("-- describe", k), Line("--", 0)>>

\* Outcomes of a database_forwards / database_backwards call.
DbOutcomes == {"ok", "DatabaseError"}

\* The three methods the base Operation leaves to its subclasses
\* (operations/base.py lines 62-88).
Methods == {"state_forwards", "database_forwards", "database_backwards"}

\* Is the method inherited from the base class, whose body is
\* "raise NotImplementedError(...)"?
not_implemented(ov, method_name) == method_name \notin ov

\* What a database method can do: the subclass's method succeeds or fails in
\* the database, the base class's method raises NotImplementedError.
db_outcomes(ov, method_name) ==
    IF not_implemented(ov, method_name) THEN {"NotImplementedError"} ELSE DbOutcomes

VARIABLES
    mig,              \* the Migration instance (self)
    atomic_migration, \* schema_editor.atomic_migration
    collected_sql,    \* schema_editor.collected_sql
    heap,             \* ProjectState objects, by reference
    project_state,    \* the caller's ProjectState (a reference)
    pc,               \* position inside apply / unapply, "idle" between calls
    method,           \* the method running or last run
    collect_sql,      \* the collect_sql argument
    i,                \* loop position
    old_state,        \* local old_state (a reference, 0 when unset)
    new_state,        \* local new_state of unapply (a reference, 0 when unset)
    to_run,           \* unapply's worklist
    txn,              \* a per-operation atomic(alias) block is open
    dblog,            \* database_forwards/backwards calls of the current run
    result,           \* how the last call ended
    entry,            \* value of project_state when the current call began
    wrap_fwd,         \* per operation: how apply last called database_forwards
    wrap_bwd,         \* per operation: how unapply last called database_backwards
    ncalls,           \* calls made so far
    prev,             \* the call before the current one: method, entry value, end
    overrides,        \* per operation: the Operation methods its class overrides
    preserve,         \* the preserve argument of mutate_state
    db,               \* the connection's database: the django_migrations table
    history,          \* the MigrationRecorder calls made so far, with their outcome
    list_heap,        \* list objects (operations, dependencies, ...), by reference
    instances,        \* Migration instances built so far: a list reference per attribute
    last_mut,         \* the last list mutation, with the lists as they were before it
    pure_call,        \* a call of a side-effect-free function: inputs and result
    operation_obj,    \* an Operation instance: its class and _constructor_args
    operation_log,    \* what was passed to its constructor, what deconstruct returned
    handler,          \* a BaseConnectionHandler: its settings and exception_class
    connections,      \* handler._connections: the attribute stored per alias
    handler_log       \* the handler calls made so far, with their outcome

migVars == <<mig, atomic_migration, collected_sql, heap, project_state, pc,
             method, collect_sql, i, old_state, new_state, to_run, txn, dblog,
             result, entry, wrap_fwd, wrap_bwd, ncalls, prev, overrides, preserve>>

recVars == <<db, history>>

objVars == <<list_heap, instances, last_mut>>

opVars == <<operation_obj, operation_log>>

connVars == <<handler, connections, handler_log>>

otherVars == <<objVars, pure_call, opVars, connVars>>

vars == <<migVars, recVars, otherVars>>

NOps == Len(mig.operations)

NoResult == [kind |-> "none", exc |-> "None", operation |-> 0,
             migration |-> <<"", "">>, same_object |-> FALSE, value |-> <<>>]

Returned(ref) == [kind |-> "return", exc |-> "None", operation |-> 0,
                  migration |-> <<"", "">>,
                  same_object |-> (ref = project_state), value |-> heap[ref]]

Raised(e, k) == [kind |-> "raise", exc |-> e, operation |-> k,
                 migration |-> <<mig.app_label, mig.name>>,
                 same_object |-> FALSE, value |-> <<>>]

InitMig ==
    /\ mig \in Migration
    /\ atomic_migration \in BOOLEAN
    /\ collected_sql = <<>>
    /\ heap = << <<>> >>
    /\ project_state = 1
    /\ pc = "idle"
    /\ method = "none"
    /\ collect_sql = FALSE
    /\ i = 0
    /\ old_state = 0
    /\ new_state = 0
    /\ to_run = <<>>
    /\ txn = FALSE
    /\ dblog = <<>>
    /\ result = NoResult
    /\ entry = <<>>
    /\ wrap_fwd = [k \in 1..NOps |-> "unset"]
    /\ wrap_bwd = [k \in 1..NOps |-> "unset"]
    /\ ncalls = 0
    /\ prev = [method |-> "none", entry |-> <<>>, kind |-> "none", value |-> <<>>]
    /\ preserve = FALSE

\* Every operation is an instance of a concrete subclass.
InitConcrete == overrides = [k \in 1..NOps |-> Methods]

\* The frame of a call is dropped when it ends: only the caller's object stays.
EndCall(res) ==
    /\ result' = res
    /\ heap' = << heap[project_state] >>
    /\ project_state' = 1
    /\ pc' = "idle"
    /\ i' = 0
    /\ old_state' = 0
    /\ new_state' = 0
    /\ to_run' = <<>>
    /\ txn' = FALSE

BeginCall(m, cs) ==
    /\ pc = "idle"
    /\ ncalls < MaxCalls
    /\ result.kind # "raise"   \* an exception ends the command that drives the calls
    /\ ncalls' = ncalls + 1
    /\ prev' = [method |-> method, entry |-> entry, kind |-> result.kind,
                value |-> result.value]
    /\ method' = m
    /\ collect_sql' = cs
    /\ collected_sql' = <<>>
    /\ dblog' = <<>>
    /\ result' = NoResult
    /\ entry' = heap[project_state]
    /\ i' = 1
    /\ old_state' = 0
    /\ to_run' = <<>>
    /\ txn' = FALSE
    /\ UNCHANGED <<mig, atomic_migration, heap, project_state, wrap_fwd, wrap_bwd,
                   db, history, overrides, otherVars>>

\* ------------------------------------------------------- Migration.apply
\* apply(project_state, schema_editor, collect_sql)
Apply_Call ==
    \E cs \in BOOLEAN :
        /\ BeginCall("apply", cs)
        /\ pc' = "a_loop"
        /\ new_state' = 0
        /\ UNCHANGED preserve

\* lines 126-138: next operation, the collect_sql comment block, the skip
Apply_LoopHead ==
    /\ pc = "a_loop"
    /\ i <= NOps
    /\ collected_sql' =
          IF collect_sql THEN collected_sql \o sql_comments(mig.operations[i], i)
          ELSE collected_sql
    /\ IF apply_skips(collect_sql, mig.operations[i])
       THEN /\ i' = i + 1
            /\ pc' = "a_loop"
       ELSE /\ i' = i
            /\ pc' = "a_clone"
    /\ UNCHANGED <<mig, atomic_migration, heap, project_state, method, collect_sql,
                   old_state, new_state, to_run, txn, dblog, result, entry,
                   wrap_fwd, wrap_bwd, ncalls, prev, db, history,
                   overrides, preserve, otherVars>>

Apply_Snapshot_aliases ==
    /\ pc = "a_clone"
    /\ old_state' = project_state
    /\ pc' = "a_sf"
    /\ UNCHANGED <<mig, atomic_migration, collected_sql, heap, project_state, method,
                   collect_sql, i, new_state, to_run, txn, dblog, result, entry,
                   wrap_fwd, wrap_bwd, ncalls, prev, db, history,
                   overrides, preserve, otherVars>>

\* line 140: old_state = project_state.clone()
Apply_Snapshot ==
    /\ pc = "a_clone"
    /\ LET c == clone(heap, project_state)
       IN  /\ heap' = c.heap
           /\ old_state' = c.ref
    /\ pc' = "a_sf"
    /\ UNCHANGED <<mig, atomic_migration, collected_sql, project_state, method,
                   collect_sql, i, new_state, to_run, txn, dblog, result, entry,
                   wrap_fwd, wrap_bwd, ncalls, prev, db, history,
                   overrides, preserve, otherVars>>

\* line 141: operation.state_forwards(self.app_label, project_state)
Apply_StateForwards ==
    /\ pc = "a_sf"
    /\ IF not_implemented(overrides[i], "state_forwards")
       THEN EndCall(Raised("NotImplementedError", i))
       ELSE /\ heap' = [heap EXCEPT ![project_state] = state_forwards(i, @)]
            /\ pc' = "a_db"
            /\ UNCHANGED <<project_state, i, old_state, new_state, to_run, txn,
                           result>>
    /\ UNCHANGED <<mig, atomic_migration, collected_sql, method,
                   collect_sql, dblog, entry, wrap_fwd, wrap_bwd, ncalls, prev, db, history,
                   overrides, preserve, otherVars>>

\* lines 143-147: enter "with atomic(schema_editor.connection.alias)"
Apply_EnterAtomic ==
    /\ pc = "a_db"
    /\ apply_wraps(atomic_migration, mig, mig.operations[i])
    /\ txn' = TRUE
    /\ pc' = "a_call"
    /\ UNCHANGED <<mig, atomic_migration, collected_sql, heap, project_state,
                   method, collect_sql, i, old_state, new_state, to_run, dblog,
                   result, entry, wrap_fwd, wrap_bwd, ncalls, prev, db, history,
                   overrides, preserve, otherVars>>

\* lines 149-150: the else branch, no per-operation transaction
Apply_Direct ==
    /\ pc = "a_db"
    /\ ~apply_wraps(atomic_migration, mig, mig.operations[i])
    /\ pc' = "a_call"
    /\ UNCHANGED <<mig, atomic_migration, collected_sql, heap, project_state,
                   method, collect_sql, i, old_state, new_state, to_run, txn,
                   dblog, result, entry, wrap_fwd, wrap_bwd, ncalls, prev, db, history,
                   overrides, preserve, otherVars>>

Apply_DatabaseForwards_swallows ==
    /\ pc = "a_call"
    /\ \E outcome \in db_outcomes(overrides[i], "database_forwards") :
        /\ dblog' = Append(dblog, [dir |-> "forwards", operation |-> i,
                                   from_state |-> heap[old_state],
                                   to_state |-> heap[project_state],
                                   in_txn |-> txn, outcome |-> outcome])
        /\ wrap_fwd' = [wrap_fwd EXCEPT ![i] = IF txn THEN "atomic" ELSE "direct"]
        /\ i' = i + 1
        /\ txn' = FALSE
        /\ pc' = "a_loop"
        /\ collected_sql' = IF collect_sql /\ outcome = "ok"
                            THEN Append(collected_sql, Line("sql", i))
                            ELSE collected_sql
    /\ UNCHANGED <<mig, atomic_migration, method, collect_sql, heap, project_state,
                   old_state, new_state, to_run, result,
                   entry, wrap_bwd, ncalls, prev, db, history,
                   overrides, preserve, otherVars>>

\* lines 148 / 151: operation.database_forwards(app_label, schema_editor,
\* old_state, project_state); an exception leaves the atomic block (rollback)
\* and propagates out of apply.
Apply_DatabaseForwards ==
    /\ pc = "a_call"
    /\ \E outcome \in db_outcomes(overrides[i], "database_forwards") :
        /\ dblog' = Append(dblog, [dir |-> "forwards", operation |-> i,
                                   from_state |-> heap[old_state],
                                   to_state |-> heap[project_state],
                                   in_txn |-> txn, outcome |-> outcome])
        /\ wrap_fwd' = [wrap_fwd EXCEPT ![i] = IF txn THEN "atomic" ELSE "direct"]
        /\ IF outcome = "ok"
           THEN /\ i' = i + 1
                /\ txn' = FALSE
                /\ pc' = "a_loop"
                /\ UNCHANGED <<heap, project_state, old_state, new_state, to_run,
                               result>>
           ELSE EndCall(Raised(outcome, i))
        /\ collected_sql' = IF collect_sql /\ outcome = "ok"
                            THEN Append(collected_sql, Line("sql", i))
                            ELSE collected_sql
    /\ UNCHANGED <<mig, atomic_migration, method, collect_sql,
                   entry, wrap_bwd, ncalls, prev, db, history,
                   overrides, preserve, otherVars>>

Apply_Return_records ==
    /\ pc = "a_loop"
    /\ i > NOps
    /\ EndCall(Returned(project_state))
    /\ db' = [table |-> TRUE, rows |-> Append(db.rows, [app |-> "app1", name |-> "0001"])]
    /\ UNCHANGED <<mig, atomic_migration, collected_sql, method, collect_sql,
                   dblog, entry, wrap_fwd, wrap_bwd, ncalls, prev, history,
                   overrides, preserve, otherVars>>

\* line 152: return project_state
Apply_Return ==
    /\ pc = "a_loop"
    /\ i > NOps
    /\ EndCall(Returned(project_state))
    /\ UNCHANGED <<mig, atomic_migration, collected_sql, method, collect_sql,
                   dblog, entry, wrap_fwd, wrap_bwd, ncalls, prev, db, history,
                   overrides, preserve, otherVars>>

\* ----------------------------------------------------- Migration.unapply
\* unapply(project_state, schema_editor, collect_sql); lines 174-175
Unapply_Call ==
    \E cs \in BOOLEAN :
        /\ BeginCall("unapply", cs)
        /\ pc' = "u_p1"
        /\ new_state' = project_state
        /\ UNCHANGED preserve

\* lines 177-180: next operation of phase 1, the reversible check
Unapply_Phase1Head ==
    /\ pc = "u_p1"
    /\ i <= NOps
    /\ IF unapply_irreversible(mig.operations[i])
       THEN EndCall(Raised("IrreversibleError", i))
       ELSE /\ pc' = "u_clone"
            /\ UNCHANGED <<heap, project_state, i, old_state, new_state, to_run,
                           txn, result>>
    /\ UNCHANGED <<mig, atomic_migration, collected_sql, method, collect_sql,
                   dblog, entry, wrap_fwd, wrap_bwd, ncalls, prev, db, history,
                   overrides, preserve, otherVars>>

\* lines 183-184: new_state = new_state.clone(); old_state = new_state.clone()
Unapply_Clone ==
    /\ pc = "u_clone"
    /\ LET c1 == unapply_preserve(heap, new_state)
           c2 == clone(c1.heap, c1.ref)
       IN  /\ heap' = c2.heap
           /\ new_state' = c1.ref
           /\ old_state' = c2.ref
    /\ pc' = "u_sf"
    /\ UNCHANGED <<mig, atomic_migration, collected_sql, project_state, method,
                   collect_sql, i, to_run, txn, dblog, result, entry, wrap_fwd,
                   wrap_bwd, ncalls, prev, db, history,
                   overrides, preserve, otherVars>>

\* lines 185-186: state_forwards on new_state, prepend to the worklist
Unapply_StateForwards ==
    /\ pc = "u_sf"
    /\ IF not_implemented(overrides[i], "state_forwards")
       THEN EndCall(Raised("NotImplementedError", i))
       ELSE /\ heap' = [heap EXCEPT ![new_state] = state_forwards(i, @)]
            /\ to_run' = to_run_insert(to_run, i, old_state, new_state)
            /\ i' = i + 1
            /\ pc' = "u_p1"
            /\ UNCHANGED <<project_state, old_state, new_state, txn, result>>
    /\ UNCHANGED <<mig, atomic_migration, collected_sql, method,
                   collect_sql, dblog, entry,
                   wrap_fwd, wrap_bwd, ncalls, prev, db, history,
                   overrides, preserve, otherVars>>

\* line 189: phase 1 is over, start walking to_run
Unapply_Phase2Start ==
    /\ pc = "u_p1"
    /\ i > NOps
    /\ i' = 1
    /\ pc' = "u_p2"
    /\ UNCHANGED <<mig, atomic_migration, collected_sql, heap, project_state,
                   method, collect_sql, old_state, new_state, to_run, txn, dblog,
                   result, entry, wrap_fwd, wrap_bwd, ncalls, prev, db, history,
                   overrides, preserve, otherVars>>

\* lines 189-199: next worklist entry, the collect_sql comment block, the skip
Unapply_Phase2Head ==
    /\ pc = "u_p2"
    /\ i <= Len(to_run)
    /\ LET k == to_run[i].operation
       IN  /\ collected_sql' =
                 IF collect_sql
                 THEN collected_sql \o sql_comments(mig.operations[k], k)
                 ELSE collected_sql
           /\ IF unapply_skips(collect_sql, mig.operations[k])
              THEN /\ i' = i + 1
                   /\ pc' = "u_p2"
              ELSE /\ i' = i
                   /\ pc' = "u_db"
    /\ UNCHANGED <<mig, atomic_migration, heap, project_state, method, collect_sql,
                   old_state, new_state, to_run, txn, dblog, result, entry,
                   wrap_fwd, wrap_bwd, ncalls, prev, db, history,
                   overrides, preserve, otherVars>>

Unapply_EnterAtomic_any_editor ==
    /\ pc = "u_db"
    /\ unapply_atomic_operation(mig, mig.operations[to_run[i].operation])
    /\ txn' = TRUE
    /\ pc' = "u_call"
    /\ UNCHANGED <<mig, atomic_migration, collected_sql, heap, project_state,
                   method, collect_sql, i, old_state, new_state, to_run, dblog,
                   result, entry, wrap_fwd, wrap_bwd, ncalls, prev, db, history,
                   overrides, preserve, otherVars>>

\* lines 200-204: enter "with atomic(schema_editor.connection.alias)"
Unapply_EnterAtomic ==
    /\ pc = "u_db"
    /\ unapply_wraps(atomic_migration, mig, mig.operations[to_run[i].operation])
    /\ txn' = TRUE
    /\ pc' = "u_call"
    /\ UNCHANGED <<mig, atomic_migration, collected_sql, heap, project_state,
                   method, collect_sql, i, old_state, new_state, to_run, dblog,
                   result, entry, wrap_fwd, wrap_bwd, ncalls, prev, db, history,
                   overrides, preserve, otherVars>>

\* lines 206-207: the else branch, no per-operation transaction
Unapply_Direct ==
    /\ pc = "u_db"
    /\ ~unapply_wraps(atomic_migration, mig, mig.operations[to_run[i].operation])
    /\ pc' = "u_call"
    /\ UNCHANGED <<mig, atomic_migration, collected_sql, heap, project_state,
                   method, collect_sql, i, old_state, new_state, to_run, txn,
                   dblog, result, entry, wrap_fwd, wrap_bwd, ncalls, prev, db, history,
                   overrides, preserve, otherVars>>

\* lines 205 / 208: operation.database_backwards(app_label, schema_editor,
\* from_state, to_state) with (operation, to_state, from_state) = to_run[i]
Unapply_DatabaseBackwards ==
    /\ pc = "u_call"
    /\ \E outcome \in db_outcomes(overrides[to_run[i].operation],
                                  "database_backwards") :
        LET k == to_run[i].operation
        IN  /\ dblog' = Append(dblog, [dir |-> "backwards", operation |-> k,
                                       from_state |-> heap[to_run[i].new_state],
                                       to_state |-> heap[to_run[i].old_state],
                                       in_txn |-> txn, outcome |-> outcome])
            /\ wrap_bwd' = [wrap_bwd EXCEPT ![k] = IF txn THEN "atomic" ELSE "direct"]
            /\ IF outcome = "ok"
               THEN /\ i' = i + 1
                    /\ txn' = FALSE
                    /\ pc' = "u_p2"
                    /\ UNCHANGED <<heap, project_state, old_state, new_state,
                                   to_run, result>>
               ELSE EndCall(Raised(outcome, k))
            /\ collected_sql' = IF collect_sql /\ outcome = "ok"
                                THEN Append(collected_sql, Line("sql", k))
                                ELSE collected_sql
    /\ UNCHANGED <<mig, atomic_migration, method, collect_sql,
                   entry, wrap_fwd, ncalls, prev, db, history,
                   overrides, preserve, otherVars>>

\* line 209: return project_state
Unapply_Return ==
    /\ pc = "u_p2"
    /\ i > Len(to_run)
    /\ EndCall(Returned(unapply_return(project_state, new_state)))
    /\ UNCHANGED <<mig, atomic_migration, collected_sql, method, collect_sql,
                   dblog, entry, wrap_fwd, wrap_bwd, ncalls, prev, db, history,
                   overrides, preserve, otherVars>>

\* ------------------------------------------------ Migration.mutate_state
mutate_state_target_in_place(h, r, keep) == [heap |-> h, ref |-> r]

\* lines 106-108: new_state = project_state, or its clone when preserve
mutate_state_target(h, r, keep) ==
    IF keep THEN clone(h, r) ELSE [heap |-> h, ref |-> r]

\* mutate_state(project_state, preserve); lines 106-108
Mutate_Call ==
    \E keep \in BOOLEAN :
        /\ pc = "idle"
        /\ ncalls < MaxCalls
        /\ result.kind # "raise"
        /\ ncalls' = ncalls + 1
        /\ prev' = [method |-> method, entry |-> entry, kind |-> result.kind,
                    value |-> result.value]
        /\ method' = "mutate_state"
        /\ preserve' = keep
        /\ result' = NoResult
        /\ entry' = heap[project_state]
        /\ LET t == mutate_state_target(heap, project_state, keep)
           IN  /\ heap' = t.heap
               /\ new_state' = t.ref
        /\ i' = 1
        /\ pc' = "m_loop"
        /\ dblog' = <<>>
        /\ collected_sql' = <<>>
        /\ UNCHANGED <<mig, atomic_migration, project_state, collect_sql, old_state,
                       to_run, txn, wrap_fwd, wrap_bwd, db, history, overrides,
                       otherVars>>

\* lines 110-111: operation.state_forwards(self.app_label, new_state)
Mutate_StateForwards ==
    /\ pc = "m_loop"
    /\ i <= NOps
    /\ IF not_implemented(overrides[i], "state_forwards")
       THEN /\ result' = Raised("NotImplementedError", i)
            /\ pc' = "idle"
            /\ i' = 0
            /\ new_state' = 0
            /\ heap' = << heap[project_state] >>
       ELSE /\ heap' = [heap EXCEPT ![new_state] = state_forwards(i, @)]
            /\ i' = i + 1
            /\ UNCHANGED <<pc, new_state, result>>
    /\ UNCHANGED <<mig, atomic_migration, collected_sql, project_state, method,
                   collect_sql, old_state, to_run, txn, dblog, entry, wrap_fwd,
                   wrap_bwd, ncalls, prev, db, history, overrides, preserve,
                   otherVars>>

\* line 112: return new_state
Mutate_Return ==
    /\ pc = "m_loop"
    /\ i > NOps
    /\ result' = Returned(new_state)
    /\ pc' = "idle"
    /\ i' = 0
    /\ new_state' = 0
    /\ heap' = << heap[project_state] >>
    /\ UNCHANGED <<mig, atomic_migration, collected_sql, project_state, method,
                   collect_sql, old_state, to_run, txn, dblog, entry, wrap_fwd,
                   wrap_bwd, ncalls, prev, db, history, overrides, preserve,
                   otherVars>>

NextMutate ==
    \/ Mutate_Call
    \/ Mutate_StateForwards
    \/ Mutate_Return

NextMig ==
    \/ Apply_Call
    \/ Apply_LoopHead
    \/ Apply_Snapshot
    \/ Apply_StateForwards
    \/ Apply_EnterAtomic
    \/ Apply_Direct
    \/ Apply_DatabaseForwards
    \/ Apply_Return
    \/ Unapply_Call
    \/ Unapply_Phase1Head
    \/ Unapply_Clone
    \/ Unapply_StateForwards
    \/ Unapply_Phase2Start
    \/ Unapply_Phase2Head
    \/ Unapply_EnterAtomic
    \/ Unapply_Direct
    \/ Unapply_DatabaseBackwards
    \/ Unapply_Return

\* ------------------------------------------------------ MigrationRecorder
Apps == {"app1", "app2"}
Names == {"0001", "0002"}

\* A row of django_migrations (the model of lines 40-48).
Row(app, name) == [app |-> app, name |-> name]

EmptyDb == [table |-> FALSE, rows |-> <<>>]

\* lines 64-69: has_table()
has_table(d) == d.table

\* line 84: editor.create_model(self.Migration); the DDL succeeds or fails
\* with a DatabaseError, and a failed DDL leaves no table.
create_model(d, can_create) ==
    IF can_create
    THEN [db |-> [table |-> TRUE, rows |-> <<>>], exc |-> "None", created |-> TRUE]
    ELSE [db |-> d, exc |-> "DatabaseError", created |-> FALSE]

ensure_schema_except_reraise(exc) == exc

\* lines 85-86: except DatabaseError: raise MigrationSchemaMissing
ensure_schema_except(exc) ==
    IF exc = "DatabaseError" THEN "MigrationSchemaMissing" ELSE exc

ensure_schema_always_creates(d, can_create) ==
    LET c == create_model(d, can_create)
    IN  [db |-> c.db, exc |-> ensure_schema_except(c.exc), created |-> c.created]

\* lines 71-86: ensure_schema()
ensure_schema(d, can_create) ==
    IF has_table(d)
    THEN [db |-> d, exc |-> "None", created |-> FALSE]
    ELSE LET c == create_model(d, can_create)
         IN  [db |-> c.db, exc |-> ensure_schema_except(c.exc), created |-> c.created]

\* line 94: the keys of the dict comprehension over migration_qs
RowKeys(rows) == {<<rows[n].app, rows[n].name>> : n \in 1..Len(rows)}

\* lines 88-98: applied_migrations(); the mapping sends a key to the last row
\* iterated with that key
applied_migrations(d) ==
    IF has_table(d)
    THEN [key \in RowKeys(d.rows) |->
            LET n == CHOOSE n \in 1..Len(d.rows) :
                        /\ <<d.rows[n].app, d.rows[n].name>> = key
                        /\ \A m \in (n+1)..Len(d.rows) :
                              <<d.rows[m].app, d.rows[m].name>> # key
            IN  d.rows[n]]
    ELSE [key \in {} |-> Row("", "")]

\* line 107: migration_qs.create(app=app, name=name)
qs_create(d, app, name) == [d EXCEPT !.rows = Append(@, Row(app, name))]

qs_filter_delete_by_name(d, app, name) ==
    [d EXCEPT !.rows = SelectSeq(@, LAMBDA r : r.name # name)]

\* line 116: migration_qs.filter(app=app, name=name).delete()
qs_filter_delete(d, app, name) ==
    [d EXCEPT !.rows = SelectSeq(@, LAMBDA r : ~(r.app = app /\ r.name = name))]

\* lines 100-107: record_applied(app, name)
record_applied(d, app, name, can_create) ==
    LET e == ensure_schema(d, can_create)
    IN  IF e.exc # "None"
        THEN e
        ELSE [db |-> qs_create(e.db, app, name), exc |-> "None", created |-> e.created]

record_unapplied_no_ensure(d, app, name, can_create) ==
    IF d.table
    THEN [db |-> qs_filter_delete(d, app, name), exc |-> "None", created |-> FALSE]
    ELSE [db |-> d, exc |-> "DatabaseError", created |-> FALSE]

\* lines 109-116: record_unapplied(app, name)
record_unapplied(d, app, name, can_create) ==
    LET e == ensure_schema(d, can_create)
    IN  IF e.exc # "None"
        THEN e
        ELSE [db |-> qs_filter_delete(e.db, app, name), exc |-> "None",
              created |-> e.created]

flush_ensures_schema(d) ==
    [db |-> [table |-> TRUE, rows |-> <<>>], exc |-> "None", created |-> ~d.table]

\* lines 118-124: flush(); the DELETE fails on a database without the table
flush(d) ==
    IF d.table
    THEN [db |-> [d EXCEPT !.rows = <<>>], exc |-> "None", created |-> FALSE]
    ELSE [db |-> d, exc |-> "DatabaseError", created |-> FALSE]

\* One entry of the call history: the call, the database before and after it,
\* how it ended, and whether the table was absent while the database refused
\* to create it.
Called(op, app, name, before, r, denied, returned, keys) ==
    [op |-> op, app |-> app, name |-> name, before |-> before, after |-> r.db,
     exc |-> r.exc, created |-> r.created, ddl_denied |-> denied,
     returned |-> returned, keys |-> keys]

NoChange(d) == [db |-> d, exc |-> "None", created |-> FALSE]

InitRec ==
    /\ db = EmptyDb
    /\ history = <<>>

Rec_HasTable ==
    /\ Len(history) < MaxRecorderCalls
    /\ history' = Append(history,
          Called("has_table", "", "", db, NoChange(db), FALSE, has_table(db), {}))
    /\ UNCHANGED <<db, migVars, otherVars>>

Rec_EnsureSchema ==
    /\ Len(history) < MaxRecorderCalls
    /\ \E can_create \in BOOLEAN :
        LET r == ensure_schema(db, can_create)
        IN  /\ db' = r.db
            /\ history' = Append(history,
                  Called("ensure_schema", "", "", db, r,
                         ~db.table /\ ~can_create, FALSE, {}))
    /\ UNCHANGED <<migVars, otherVars>>

Rec_AppliedMigrations ==
    /\ Len(history) < MaxRecorderCalls
    /\ history' = Append(history,
          Called("applied_migrations", "", "", db, NoChange(db), FALSE, FALSE,
                 DOMAIN applied_migrations(db)))
    /\ UNCHANGED <<db, migVars, otherVars>>

Rec_RecordApplied ==
    /\ Len(history) < MaxRecorderCalls
    /\ \E app \in Apps, name \in Names, can_create \in BOOLEAN :
        LET r == record_applied(db, app, name, can_create)
        IN  /\ db' = r.db
            /\ history' = Append(history,
                  Called("record_applied", app, name, db, r,
                         ~db.table /\ ~can_create, FALSE, {}))
    /\ UNCHANGED <<migVars, otherVars>>

Rec_RecordUnapplied ==
    /\ Len(history) < MaxRecorderCalls
    /\ \E app \in Apps, name \in Names, can_create \in BOOLEAN :
        LET r == record_unapplied(db, app, name, can_create)
        IN  /\ db' = r.db
            /\ history' = Append(history,
                  Called("record_unapplied", app, name, db, r,
                         ~db.table /\ ~can_create, FALSE, {}))
    /\ UNCHANGED <<migVars, otherVars>>

Rec_Flush ==
    /\ Len(history) < MaxRecorderCalls
    /\ LET r == flush(db)
       IN  /\ db' = r.db
           /\ history' = Append(history, Called("flush", "", "", db, r, FALSE, FALSE, {}))
    /\ UNCHANGED <<migVars, otherVars>>

NextRec ==
    \/ Rec_HasTable
    \/ Rec_EnsureSchema
    \/ Rec_AppliedMigrations
    \/ Rec_RecordApplied
    \/ Rec_RecordUnapplied
    \/ Rec_Flush

\* ---------------------------------------------------- Migration.__init__
\* The list attributes of the Migration class (lines 38, 43, 49, 55).
Fields == {"operations", "dependencies", "run_before", "replaces"}

\* What the lists hold (operations, migration keys, names).
Items == {"x", "y"}

\* The class-level lists are the first four list objects.
ClassLists == [operations |-> 1, dependencies |-> 2, run_before |-> 3,
               replaces |-> 4]

InstanceNames == {"m1", "m2"}

NotBuilt == [operations |-> 0, dependencies |-> 0, run_before |-> 0,
             replaces |-> 0]

NoMutation == [inst |-> "none", field |-> "none", before |-> <<>>, count |-> 0]

copy_list_alias(h, r) == [heap |-> h, ref |-> r]

\* list(self.__class__.<attr>): a new list object with the same items
copy_list(h, r) == [heap |-> Append(h, h[r]), ref |-> Len(h) + 1]

\* A subclass declares each list attribute or inherits the empty one.
InitObjTemplates ==
    /\ list_heap \in [1..4 -> {<<>>, <<"x", "y">>}]
    /\ instances = [n \in InstanceNames |-> NotBuilt]
    /\ last_mut = NoMutation

\* The base Migration class, no instance built.
InitObj ==
    /\ list_heap = [r \in 1..4 |-> <<>>]
    /\ instances = [n \in InstanceNames |-> NotBuilt]
    /\ last_mut = NoMutation

\* lines 72-79: __init__(name, app_label) copies the four class-level lists
Construct ==
    \E n \in InstanceNames :
        /\ instances[n] = NotBuilt
        /\ LET c1 == copy_list(list_heap, ClassLists.operations)
               c2 == copy_list(c1.heap, ClassLists.dependencies)
               c3 == copy_list(c2.heap, ClassLists.run_before)
               c4 == copy_list(c3.heap, ClassLists.replaces)
           IN  /\ list_heap' = c4.heap
               /\ instances' = [instances EXCEPT ![n] =
                     [operations |-> c1.ref, dependencies |-> c2.ref,
                      run_before |-> c3.ref, replaces |-> c4.ref]]
        /\ UNCHANGED <<last_mut, migVars, recVars, pure_call, opVars, connVars>>

Mutations == last_mut.count

Mutated(n, f) == [inst |-> n, field |-> f, before |-> list_heap,
                  count |-> Mutations + 1]

\* line 75, "we might mutate them at runtime": instance.<attr>.append(item)
List_Append ==
    \E n \in InstanceNames, f \in Fields, item \in Items :
        /\ instances[n] # NotBuilt
        /\ Mutations < MaxMutations
        /\ list_heap' = [list_heap EXCEPT ![instances[n][f]] = Append(@, item)]
        /\ last_mut' = Mutated(n, f)
        /\ UNCHANGED <<instances, migVars, recVars, pure_call, opVars, connVars>>

\* instance.<attr>.pop(0)
List_Remove ==
    \E n \in InstanceNames, f \in Fields :
        /\ instances[n] # NotBuilt
        /\ Mutations < MaxMutations
        /\ list_heap[instances[n][f]] # <<>>
        /\ list_heap' = [list_heap EXCEPT ![instances[n][f]] = Tail(@)]
        /\ last_mut' = Mutated(n, f)
        /\ UNCHANGED <<instances, migVars, recVars, pure_call, opVars, connVars>>

\* instance.<attr>.reverse()
List_Reverse ==
    \E n \in InstanceNames, f \in Fields :
        /\ instances[n] # NotBuilt
        /\ Mutations < MaxMutations
        /\ Len(list_heap[instances[n][f]]) > 1
        /\ list_heap' = [list_heap EXCEPT ![instances[n][f]] =
                           [k \in 1..Len(@) |-> @[Len(@) + 1 - k]]]
        /\ last_mut' = Mutated(n, f)
        /\ UNCHANGED <<instances, migVars, recVars, pure_call, opVars, connVars>>

NextInstances ==
    \/ Construct
    \/ List_Append
    \/ List_Remove
    \/ List_Reverse

\* ------------------------------------------- side-effect-free functions
\* Strings are sequences of characters, so that "%s.%s" formatting is real.
Labels == {<<"a">>, <<"a", ".", "b">>}

MigrationNames == {<<"c">>, <<"b", ".", "c">>}

\* The objects __eq__ may meet: Migration instances, and other objects that
\* happen to carry the same attributes.
Objects == [is_migration : BOOLEAN, app_label : Labels, name : MigrationNames,
            operations : {<<>>, <<"x">>}]

migration_eq_name_only(self, other) ==
    other.is_migration /\ self.name = other.name

\* lines 81-86: __eq__
migration_eq(self, other) ==
    /\ other.is_migration
    /\ self.name = other.name
    /\ self.app_label = other.app_label

\* lines 91-92: __str__, "%s.%s" % (self.app_label, self.name)
migration_str(self) == self.app_label \o <<".">> \o self.name

\* hash() of a string: a function of its characters, nothing else.
python_hash(str) == [hash_of |-> str]

\* lines 94-95: __hash__
migration_hash(self) == python_hash(migration_str(self))

\* Operations as reduce() sees them: which object, and its elidable flag.
ReduceOperands == [id : {"o1", "o2", "o3", "o4"}, elidable : BOOLEAN]

ReturnList(items) == [kind |-> "list", items |-> items]

ReturnFalse == [kind |-> "False", items |-> <<>>]

reduce_other_first(self, operation, app_label) ==
    IF operation.elidable THEN ReturnList(<<self>>)
    ELSE IF self.elidable THEN ReturnList(<<operation>>)
    ELSE ReturnFalse

\* operations/base.py lines 141-151: reduce(operation, app_label)
reduce(self, operation, app_label) ==
    IF self.elidable THEN ReturnList(<<operation>>)
    ELSE IF operation.elidable THEN ReturnList(<<self>>)
    ELSE ReturnFalse

\* Database aliases and the model options allow_migrate_model looks at.
Aliases == {"default", "replica"}

ModelOptions == [proxy : BOOLEAN, swapped : BOOLEAN, managed : BOOLEAN]

\* The routers' answer per alias.
Routers == [Aliases -> BOOLEAN]

\* model._meta.can_migrate(connection_alias): false for a proxy, swapped-out
\* or unmanaged model.
can_migrate(model, alias) == ~(model.proxy \/ model.swapped \/ ~model.managed)

\* router.allow_migrate_model(connection_alias, model)
router_allow_migrate_model(router, alias, model) == router[alias]

allow_migrate_model_router_only(router, alias, model) ==
    [value |-> router_allow_migrate_model(router, alias, model),
     router_consulted |-> TRUE]

\* operations/base.py lines 129-139: allow_migrate_model(connection_alias, model)
allow_migrate_model(router, alias, model) ==
    IF ~can_migrate(model, alias)
    THEN [value |-> FALSE, router_consulted |-> FALSE]
    ELSE [value |-> router_allow_migrate_model(router, alias, model),
          router_consulted |-> TRUE]

\* Fragments in the order sorted() puts them.
FragmentOrder == <<"author", "book">>

Fragments == {FragmentOrder[n] : n \in 1..Len(FragmentOrder)}

Rank(f) == CHOOSE n \in 1..Len(FragmentOrder) : FragmentOrder[n] = f

\* An operation as suggest_name sees it: is it a CreateModel, and its
\* migration_name_fragment ("None" for the base property, base.py line 106).
NamedOperations ==
    {o \in [create_model : BOOLEAN, fragment : Fragments \cup {"None"}] :
        o.create_model => o.fragment # "None"}

NamedOperationLists == UNION {[1..n -> NamedOperations] : n \in 0..MaxOps}

InitialValues == {"None", "True", "False"}

RECURSIVE insert_sorted(_, _)
insert_sorted(f, seq) ==
    IF seq = <<>> THEN <<f>>
    ELSE IF Rank(f) <= Rank(Head(seq)) THEN <<f>> \o seq
    ELSE <<Head(seq)>> \o insert_sorted(f, Tail(seq))

RECURSIVE sorted(_)
sorted(seq) == IF seq = <<>> THEN <<>> ELSE insert_sorted(Head(seq), sorted(Tail(seq)))

\* '_'.join(seq)
RECURSIVE join(_)
join(seq) ==
    IF Len(seq) <= 1 THEN seq ELSE <<Head(seq), "_">> \o join(Tail(seq))

fragments_unsorted(ops) == [k \in 1..Len(ops) |-> ops[k].fragment]

\* line 227: sorted(o.migration_name_fragment for o in self.operations)
fragments_sorted(ops) == sorted([k \in 1..Len(ops) |-> ops[k].fragment])

NoneName == [none |-> TRUE, str |-> <<>>]

Str(tokens) == [none |-> FALSE, str |-> tokens]

\* lines 211-230: suggest_name()
suggest_name(ops, initial) ==
    LET name ==
            IF Len(ops) = 1
            THEN IF ops[1].fragment = "None" THEN NoneName
                 ELSE Str(<<ops[1].fragment>>)
            ELSE IF Len(ops) > 1 /\ \A k \in 1..Len(ops) : ops[k].create_model
            THEN Str(join(fragments_sorted(ops)))
            ELSE NoneName
    IN  IF name.none
        THEN IF Truthy(initial) THEN Str(<<"initial">>)
             ELSE Str(<<"auto_", "timestamp">>)
        ELSE name

\* The classes of an apps submodule that subclass AppConfig, in the order of
\* inspect.getmembers, each by what its "default" attribute is.
DefaultValues == {"unset", "True", "False"}

CandidateLists == UNION {[1..n -> DefaultValues] : n \in 0..MaxCandidates}

Entries == {"blog", "shop"}

\* The truth value of getattr(candidate, 'default', dflt).
getattr_default(c, dflt) == IF c = "unset" THEN dflt ELSE Truthy(c)

\* apps/config.py lines 156-164: candidates not opted out with default = False
app_configs_first(cands) ==
    SelectSeq([k \in 1..Len(cands) |-> k], LAMBDA k : getattr_default(cands[k], TRUE))

\* lines 171-175: those of them that declare default = True
app_configs_second(first, cands) ==
    SelectSeq(first, LAMBDA k : getattr_default(cands[k], FALSE))

Chosen(k) == [kind |-> "class", class |-> k, app_name |-> "", exc |-> "None"]

BaseConfig(app_entry) == [kind |-> "base", class |-> 0, app_name |-> app_entry, exc |-> "None"]

CreateRaised(e) == [kind |-> "raise", class |-> 0, app_name |-> "", exc |-> e]

create_first_default_wins(app_entry, cands) ==
    LET first == app_configs_first(cands)
        second == app_configs_second(first, cands)
    IN  IF Len(first) = 1 THEN Chosen(first[1])
        ELSE IF Len(second) >= 1 THEN Chosen(second[1])
        ELSE BaseConfig(app_entry)

\* lines 151-201: create(entry) for an importable module with an apps
\* submodule and no default_app_config
create(app_entry, cands) ==
    LET first == app_configs_first(cands)
    IN  IF Len(first) = 1 THEN Chosen(first[1])
        ELSE LET second == app_configs_second(first, cands)
             IN  IF Len(second) > 1 THEN CreateRaised("RuntimeError")
                 ELSE IF Len(second) = 1 THEN Chosen(second[1])
                 ELSE BaseConfig(app_entry)

\* What include() is given. A URLconf is named by a string, passed as a module
\* object, or passed as the patterns themselves; app_name is the module's
\* attribute ("absent" when it has none); container is what urlpatterns is: a
\* list, a tuple, another iterable, or "module" when there is no urlpatterns
\* attribute and the object itself stands for the patterns.
AppNames == {"None", "", "polls"}

Namespaces == {"None", "", "ns"}

PatternKinds == {"RoutePattern", "LocalePrefixPattern", "no_pattern"}

PatternLists == UNION {[1..n -> PatternKinds] : n \in 0..MaxPatterns}

Urlconfs ==
    {u \in [given_as : {"str", "unimportable_str", "module", "patterns"},
            app_name : AppNames \cup {"absent", "blog"},
            container : {"list", "tuple", "iterable", "module"},
            patterns : PatternLists] :
        /\ u.given_as = "patterns" => (u.app_name = "absent" /\ u.container # "module")
        /\ u.given_as = "unimportable_str" =>
              (u.app_name = "absent" /\ u.container = "module")
        /\ u.container = "module" => u.patterns = <<>>}

\* arg: a URLconf, or a tuple of 1, 2 or 3 items starting with one.
IncludeArgs ==
    [is_tuple : {FALSE}, items : {<<u>> : u \in Urlconfs}]
        \cup [is_tuple : {TRUE}, items : {<<u>> : u \in Urlconfs}]
        \cup [is_tuple : {TRUE}, items : {<<u, a>> : u \in Urlconfs, a \in AppNames}]
        \cup [is_tuple : {TRUE},
              items : {<<u, a, "extra">> : u \in Urlconfs, a \in AppNames}]

\* Python truth of None, a string.
truthy(v) == v \notin {"None", ""}

\* a or b
or(a, b) == IF truthy(a) THEN a ELSE b

IncludeReturned(module, app_name, namespace) ==
    [kind |-> "return", exc |-> "None", urlconf_module |-> module,
     app_name |-> app_name, namespace |-> namespace]

IncludeRaised(e) ==
    [kind |-> "raise", exc |-> e, urlconf_module |-> "none", app_name |-> "None",
     namespace |-> "None"]

\* urls/conf.py lines 55-61: the scan for a LocalePrefixPattern
has_locale_prefix(u) ==
    /\ u.container \in {"list", "tuple"}
    /\ \E k \in 1..Len(u.patterns) : u.patterns[k] = "LocalePrefixPattern"

\* lines 38-62, once urlconf_module and the tuple's app_name are known
include_module(u, tuple_app_name, namespace) ==
    IF u.given_as = "unimportable_str" THEN IncludeRaised("ImportError")
    ELSE LET app_name == IF u.app_name = "absent" THEN tuple_app_name ELSE u.app_name
         IN  IF truthy(namespace) /\ ~truthy(app_name)
             THEN IncludeRaised("ImproperlyConfigured")
             ELSE IF has_locale_prefix(u)
             THEN IncludeRaised("ImproperlyConfigured")
             ELSE IncludeReturned([u EXCEPT !.given_as =
                                      IF @ = "str" THEN "module" ELSE @],
                                  app_name, or(namespace, app_name))

\* lines 12-62: include(arg, namespace)
include(arg, namespace) ==
    IF arg.is_tuple
    THEN IF Len(arg.items) # 2
         THEN IncludeRaised("ImproperlyConfigured")
         ELSE include_module(arg.items[1], arg.items[2], namespace)
    ELSE include_module(arg.items[1], "None", namespace)

Prepared(fn, args) == [fn |-> fn, args |-> args, done |-> FALSE, ret |-> <<>>]

NoCall == [fn |-> "none", args |-> <<>>, done |-> TRUE, ret |-> <<>>]

InitPure == pure_call = NoCall

\* The inputs of one call, drawn from the sets above.
InitPureInputs ==
    \/ \E a \in {o \in Objects : o.is_migration}, b \in Objects :
          pure_call = Prepared("eq", [self |-> a, other |-> b])
    \/ \E a \in ReduceOperands, b \in ReduceOperands :
          pure_call = Prepared("reduce", [self |-> a, operation |-> b])
    \/ \E r \in Routers, al \in Aliases, m \in ModelOptions :
          pure_call = Prepared("allow_migrate_model",
                               [router |-> r, alias |-> al, model |-> m])
    \/ \E ops \in NamedOperationLists, ini \in InitialValues :
          pure_call = Prepared("suggest_name", [operations |-> ops, initial |-> ini])
    \/ \E arg \in IncludeArgs, ns \in Namespaces :
          pure_call = Prepared("include", [arg |-> arg, namespace |-> ns])
    \/ \E en \in Entries, cands \in CandidateLists :
          pure_call = Prepared("create", [entry |-> en, candidates |-> cands])

Finished(ret) == [pure_call EXCEPT !.done = TRUE, !.ret = ret]

Call_Eq ==
    /\ pure_call.fn = "eq"
    /\ ~pure_call.done
    /\ LET a == pure_call.args.self
           b == pure_call.args.other
       IN  pure_call' = Finished(
               [eq |-> migration_eq(a, b),
                hash_self |-> migration_hash(a),
                hash_other |-> migration_hash(b)])
    /\ UNCHANGED <<migVars, recVars, objVars, opVars, connVars>>

Call_Reduce ==
    /\ pure_call.fn = "reduce"
    /\ ~pure_call.done
    /\ pure_call' = Finished(
           reduce(pure_call.args.self, pure_call.args.operation, "app"))
    /\ UNCHANGED <<migVars, recVars, objVars, opVars, connVars>>

Call_AllowMigrateModel ==
    /\ pure_call.fn = "allow_migrate_model"
    /\ ~pure_call.done
    /\ pure_call' = Finished(
           allow_migrate_model(pure_call.args.router, pure_call.args.alias,
                               pure_call.args.model))
    /\ UNCHANGED <<migVars, recVars, objVars, opVars, connVars>>

Call_SuggestName ==
    /\ pure_call.fn = "suggest_name"
    /\ ~pure_call.done
    /\ pure_call' = Finished(
           suggest_name(pure_call.args.operations, pure_call.args.initial))
    /\ UNCHANGED <<migVars, recVars, objVars, opVars, connVars>>

Call_Create ==
    /\ pure_call.fn = "create"
    /\ ~pure_call.done
    /\ pure_call' = Finished(create(pure_call.args.entry, pure_call.args.candidates))
    /\ UNCHANGED <<migVars, recVars, objVars, opVars, connVars>>

Call_Include ==
    /\ pure_call.fn = "include"
    /\ ~pure_call.done
    /\ pure_call' = Finished(include(pure_call.args.arg, pure_call.args.namespace))
    /\ UNCHANGED <<migVars, recVars, objVars, opVars, connVars>>

NextPure ==
    \/ Call_Create
    \/ Call_Include
    \/ Call_Eq
    \/ Call_Reduce
    \/ Call_AllowMigrateModel
    \/ Call_SuggestName

\* ------------------------------------------- Operation construction
OperationClasses == {"Operation", "CreateModel"}

ArgValues == {"a", "b"}

KeywordNames == {"name", "fields"}

PositionalArgs == UNION {[1..n -> ArgValues] : n \in 0..MaxArgs}

\* The keywords of a call as written, name=value, no name twice.
KeywordArgs ==
    {kw \in UNION {[1..n -> KeywordNames \X ArgValues] : n \in 0..Cardinality(KeywordNames)} :
        \A j, k \in 1..Len(kw) : kw[j][1] = kw[k][1] => j = k}

\* **kwargs: the dict a call's keywords are collected in.
dict(kw) ==
    [n \in {kw[j][1] : j \in 1..Len(kw)} |->
        (CHOOSE v \in ArgValues : \E j \in 1..Len(kw) : kw[j] = <<n, v>>)]

\* cls(*args, **d): the keywords a dict expands to.
RECURSIVE items(_)
items(d) ==
    IF DOMAIN d = {} THEN <<>>
    ELSE LET n == CHOOSE n \in DOMAIN d : TRUE
         IN  << <<n, d[n]>> >> \o items([m \in DOMAIN d \ {n} |-> d[m]])

NoOperation == [class |-> "none", constructor_args |-> <<>>]

NoOperationLog == [passed |-> <<>>, triple |-> <<>>, rebuilt |-> <<>>, called |-> <<>>]

operation_new_drops_kwargs(cls, args, kw) ==
    [class |-> cls, constructor_args |-> <<args, dict(<<>>)>>]

\* operations/base.py lines 44-48: __new__(cls, *args, **kwargs)
operation_new(cls, args, kw) ==
    [class |-> cls, constructor_args |-> <<args, dict(kw)>>]

\* lines 50-60: deconstruct()
deconstruct(self) ==
    <<self.class, self.constructor_args[1], self.constructor_args[2]>>

\* The other methods of the base class that need no collaborator; none of them
\* assigns to self (lines 90-157).
BaseMethods == {"describe", "migration_name_fragment", "references_model",
                "references_field", "reduce", "__repr__"}

InitOperation ==
    /\ operation_obj = NoOperation
    /\ operation_log = NoOperationLog

Operation_New ==
    /\ operation_obj = NoOperation
    /\ \E cls \in OperationClasses, args \in PositionalArgs, kw \in KeywordArgs :
        /\ operation_obj' = operation_new(cls, args, kw)
        /\ operation_log' = [operation_log EXCEPT !.passed = <<cls, args, kw>>]
    /\ UNCHANGED <<migVars, recVars, objVars, pure_call, connVars>>

Operation_BaseMethod ==
    /\ operation_obj # NoOperation
    /\ Len(operation_log.called) < MaxBaseCalls
    /\ \E m \in BaseMethods :
        operation_log' = [operation_log EXCEPT !.called = Append(@, m)]
    /\ UNCHANGED <<operation_obj, migVars, recVars, objVars, pure_call, connVars>>

Operation_Deconstruct ==
    /\ operation_obj # NoOperation
    /\ operation_log' = [operation_log EXCEPT !.triple = deconstruct(operation_obj)]
    /\ UNCHANGED <<operation_obj, migVars, recVars, objVars, pure_call, connVars>>

\* The same class built again from what deconstruct returned, and deconstructed.
Operation_Rebuild ==
    /\ operation_log.triple # <<>>
    /\ LET t == operation_log.triple
           again == operation_new(t[1], t[2], items(t[3]))
       IN  operation_log' = [operation_log EXCEPT !.rebuilt = deconstruct(again)]
    /\ UNCHANGED <<operation_obj, migVars, recVars, objVars, pure_call, connVars>>

NextOperation ==
    \/ Operation_New
    \/ Operation_BaseMethod
    \/ Operation_Deconstruct
    \/ Operation_Rebuild

\* ----------------------------------------------- BaseConnectionHandler
HandlerAliases == {"default", "other", "missing"}

\* settings, by the order iteration yields its aliases.
SettingsOrders == {<<>>, <<"default">>, <<"default", "other">>, <<"other", "default">>}

ExceptionClasses == {"ConnectionDoesNotExist", "InvalidCacheBackendError"}

NoAttribute == [made_for |-> "none", serial |-> 0]

\* A connection object made elsewhere and assigned with handler[alias] = conn.
AssignedConnections == {[made_for |-> "caller", serial |-> 0]}

\* The object create_connection(alias) returns in the serial-th handler call.
NewConnection(alias, serial) == [made_for |-> alias, serial |-> serial]

alias_not_in_settings_never(st, alias) == FALSE

\* utils/connection.py line 68: alias not in self.settings
alias_not_in_settings(st, alias) == \A k \in 1..Len(st) : st[k] # alias

HandlerResult(conns, ret, exc, created) ==
    [connections |-> conns, ret |-> ret, ret_list |-> <<>>, exc |-> exc,
     created |-> created]

getitem_without_store(h, conns, alias, serial, fails) ==
    IF conns[alias] # NoAttribute
    THEN HandlerResult(conns, conns[alias], "None", <<>>)
    ELSE IF alias_not_in_settings(h.settings, alias)
    THEN HandlerResult(conns, NoAttribute, h.exception_class, <<>>)
    ELSE IF alias \in fails
    THEN HandlerResult(conns, NoAttribute, "CreateError", <<alias>>)
    ELSE HandlerResult(conns, NewConnection(alias, serial), "None", <<alias>>)

\* lines 64-72: __getitem__(alias); create_connection raises for the aliases
\* in fails
getitem(h, conns, alias, serial, fails) ==
    IF conns[alias] # NoAttribute
    THEN HandlerResult(conns, conns[alias], "None", <<>>)
    ELSE IF alias_not_in_settings(h.settings, alias)
    THEN HandlerResult(conns, NoAttribute, h.exception_class, <<>>)
    ELSE IF alias \in fails
    THEN HandlerResult(conns, NoAttribute, "CreateError", <<alias>>)
    ELSE HandlerResult([conns EXCEPT ![alias] = NewConnection(alias, serial)],
                       NewConnection(alias, serial), "None", <<alias>>)

\* lines 74-76: __setitem__(key, value)
setitem(conns, key, value) ==
    HandlerResult([conns EXCEPT ![key] = value], NoAttribute, "None", <<>>)

\* lines 78-79: __delitem__(key); delattr of a missing attribute raises
delitem(conns, key) ==
    IF conns[key] = NoAttribute
    THEN HandlerResult(conns, NoAttribute, "AttributeError", <<>>)
    ELSE HandlerResult([conns EXCEPT ![key] = NoAttribute], NoAttribute, "None", <<>>)

\* lines 81-85: [self[alias] for alias in self], from the k-th alias on
RECURSIVE all_from(_, _, _, _, _, _, _)
all_from(h, conns, k, acc, created, serial, fails) ==
    IF k > Len(h.settings)
    THEN [connections |-> conns, ret |-> NoAttribute, ret_list |-> acc,
          exc |-> "None", created |-> created]
    ELSE LET r == getitem(h, conns, h.settings[k], serial, fails)
         IN  IF r.exc # "None"
             THEN [connections |-> r.connections, ret |-> NoAttribute,
                   ret_list |-> <<>>, exc |-> r.exc,
                   created |-> created \o r.created]
             ELSE all_from(h, r.connections, k + 1, Append(acc, r.ret),
                           created \o r.created, serial, fails)

\* lines 84-85: all()
all(h, conns, serial, fails) == all_from(h, conns, 1, <<>>, <<>>, serial, fails)

HandlerCalled(op, alias, value, r) ==
    [op |-> op, alias |-> alias, value |-> value, before |-> connections,
     after |-> r.connections, ret |-> r.ret, ret_list |-> r.ret_list,
     exc |-> r.exc, created |-> r.created]

\* A handler nobody uses.
InitHandlerIdle ==
    /\ handler = [settings |-> <<>>, exception_class |-> "ConnectionDoesNotExist"]
    /\ connections = [a \in HandlerAliases |-> NoAttribute]
    /\ handler_log = <<>>

\* lines 46-48: __init__(settings), of the base class or a subclass
InitHandler ==
    /\ handler \in [settings : SettingsOrders, exception_class : ExceptionClasses]
    /\ connections = [a \in HandlerAliases |-> NoAttribute]
    /\ handler_log = <<>>

Handler_GetItem ==
    /\ Len(handler_log) < MaxHandlerCalls
    /\ \E alias \in HandlerAliases, raises \in BOOLEAN :
        LET fails == IF raises THEN {alias} ELSE {}
            r == getitem(handler, connections, alias, Len(handler_log) + 1, fails)
        IN  /\ connections' = r.connections
            /\ handler_log' = Append(handler_log,
                                     HandlerCalled("getitem", alias, NoAttribute, r))
    /\ UNCHANGED <<handler, migVars, recVars, objVars, pure_call, opVars>>

Handler_SetItem ==
    /\ Len(handler_log) < MaxHandlerCalls
    /\ \E key \in HandlerAliases, value \in AssignedConnections :
        LET r == setitem(connections, key, value)
        IN  /\ connections' = r.connections
            /\ handler_log' = Append(handler_log, HandlerCalled("setitem", key, value, r))
    /\ UNCHANGED <<handler, migVars, recVars, objVars, pure_call, opVars>>

Handler_DelItem ==
    /\ Len(handler_log) < MaxHandlerCalls
    /\ \E key \in HandlerAliases :
        LET r == delitem(connections, key)
        IN  /\ connections' = r.connections
            /\ handler_log' = Append(handler_log,
                                     HandlerCalled("delitem", key, NoAttribute, r))
    /\ UNCHANGED <<handler, migVars, recVars, objVars, pure_call, opVars>>

Handler_All ==
    /\ Len(handler_log) < MaxHandlerCalls
    /\ \E fails \in SUBSET {handler.settings[k] : k \in 1..Len(handler.settings)} :
        LET r == all(handler, connections, Len(handler_log) + 1, fails)
        IN  /\ connections' = r.connections
            /\ handler_log' = Append(handler_log, HandlerCalled("all", "", NoAttribute, r))
    /\ UNCHANGED <<handler, migVars, recVars, objVars, pure_call, opVars>>

NextHandler ==
    \/ Handler_GetItem
    \/ Handler_SetItem
    \/ Handler_DelItem
    \/ Handler_All

\* The recorder on its own: the migration engine stays where it starts.
InitRecorderOnly ==
    /\ InitRec
    /\ InitMig
    /\ InitConcrete
    /\ InitObj
    /\ InitPure
    /\ InitOperation
    /\ InitHandlerIdle
    /\ mig = [app_label |-> "app", name |-> "0001", atomic |-> TRUE,
              operations |-> <<>>]
    /\ atomic_migration = TRUE

Init ==
    /\ InitMig
    /\ InitConcrete
    /\ InitRec
    /\ InitObj
    /\ InitPure
    /\ InitOperation
    /\ InitHandlerIdle

Next == NextMig

Spec == Init /\ [][Next]_vars

SpecRecorder == InitRecorderOnly /\ [][NextRec]_vars

\* An idle migration engine, for the specifications of the other components.
InitMigIdle ==
    /\ InitMig
    /\ InitConcrete
    /\ mig = [app_label |-> "app", name |-> "0001", atomic |-> TRUE,
              operations |-> <<>>]
    /\ atomic_migration = TRUE

\* Migration.__init__ and the lists of the instances it builds.
InitInstances ==
    /\ InitMigIdle
    /\ InitRec
    /\ InitObjTemplates
    /\ InitPure
    /\ InitOperation
    /\ InitHandlerIdle

SpecInstances == InitInstances /\ [][NextInstances]_vars

\* mutate_state on its own.
SpecMutate == Init /\ [][NextMutate]_vars

\* apply and unapply over a database whose bookkeeping table may hold rows.
BookkeepingDbs ==
    {EmptyDb, [table |-> TRUE, rows |-> <<>>],
     [table |-> TRUE, rows |-> <<Row("app1", "0001")>>]}

InitBookkeeping ==
    /\ InitMig
    /\ InitConcrete
    /\ mig.atomic
    /\ \A k \in 1..NOps :
          mig.operations[k].reversible /\ mig.operations[k].atomic # "None"
    /\ db \in BookkeepingDbs
    /\ history = <<>>
    /\ InitObj
    /\ InitPure
    /\ InitOperation
    /\ InitHandlerIdle

SpecBookkeeping == InitBookkeeping /\ [][NextMig]_vars

\* apply, unapply and mutate_state over operation classes that may leave one
\* of the three abstract methods unimplemented.
OverrideChoices == {Methods} \cup {Methods \ {m} : m \in Methods}

InitAbstract ==
    /\ InitMig
    /\ overrides \in [1..NOps -> OverrideChoices]
    /\ InitRec
    /\ InitObj
    /\ InitPure
    /\ InitOperation
    /\ InitHandlerIdle

NextAbstract ==
    \/ NextMig
    \/ NextMutate

SpecAbstract == InitAbstract /\ [][NextAbstract]_vars

\* The side-effect-free functions, one call each.
InitPureCalls ==
    /\ InitMigIdle
    /\ InitRec
    /\ InitObj
    /\ InitPureInputs
    /\ InitOperation
    /\ InitHandlerIdle

SpecPure == InitPureCalls /\ [][NextPure]_vars

\* Operation construction and deconstruction.
InitOperationOnly ==
    /\ InitMigIdle
    /\ InitRec
    /\ InitObj
    /\ InitPure
    /\ InitOperation
    /\ InitHandlerIdle

SpecOperation == InitOperationOnly /\ [][NextOperation]_vars

\* The connection handler of one thread.
InitHandlerOnly ==
    /\ InitMigIdle
    /\ InitRec
    /\ InitObj
    /\ InitPure
    /\ InitOperation
    /\ InitHandler

SpecHandler == InitHandlerOnly /\ [][NextHandler]_vars

\* ------------------------------------------------------------ properties
\* The value a ProjectState s has after state_forwards of operations k..n,
\* in that order, each once.
RECURSIVE FoldStateForwards(_, _, _)
FoldStateForwards(s, k, n) ==
    IF k > n THEN s ELSE FoldStateForwards(Append(s, k), k + 1, n)

AllReversible == \A k \in 1..NOps : mig.operations[k].reversible

ApplyReturned == pc = "idle" /\ method = "apply" /\ result.kind = "return"

UnapplyReturned == pc = "idle" /\ method = "unapply" /\ result.kind = "return"

\* C1: apply returns the given state with state_forwards of O1..On applied in
\* order, each once, whatever collect_sql and reduces_to_sql are.
C1_ApplyFoldsEveryOperation ==
    ApplyReturned => result.value = FoldStateForwards(entry, 1, NOps)

\* C2 (as stated): for all-reversible operations, unapply(apply(S)) returns a
\* state equal to S, the state before the migration was applied.
C2_UnapplyOfApplyRestoresS ==
    (UnapplyReturned /\ AllReversible /\ prev.method = "apply" /\ prev.kind = "return")
        => result.value = prev.entry

\* C2 (amended): unapply returns the very state object it was given, with the
\* value it had at the call; given apply's result it returns apply's result.
C2_UnapplyReturnsGivenState ==
    UnapplyReturned =>
        /\ result.same_object
        /\ result.value = entry
        /\ (prev.method = "apply" /\ prev.kind = "return") => result.value = prev.value

C2_Witness ==
    /\ UnapplyReturned
    /\ AllReversible
    /\ NOps = 2
    /\ prev.method = "apply"
    /\ prev.kind = "return"
    /\ result.value # prev.entry

\* C3: with an irreversible operation at any position, unapply raises
\* IrreversibleError naming that operation and the migration, and no
\* database_backwards call has been made in that run (none is ever made).
C3_IrreversibleRaisesBeforeBackwards ==
    (method = "unapply" /\ ~AllReversible) =>
        /\ dblog = <<>>
        /\ ~txn
        /\ pc \in {"idle", "u_p1", "u_clone", "u_sf"}
        /\ pc = "idle" =>
            /\ result.kind = "raise"
            /\ result.exc = "IrreversibleError"
            /\ result.migration = <<mig.app_label, mig.name>>
            /\ result.operation \in 1..NOps
            /\ ~mig.operations[result.operation].reversible
            /\ \A k \in 1..(result.operation - 1) : mig.operations[k].reversible

C3_Witness ==
    /\ method = "unapply"
    /\ pc = "idle"
    /\ result.exc = "IrreversibleError"
    /\ NOps = 2
    /\ result.operation = 2
    /\ dblog = <<>>

\* C4: unapply without collect_sql calls database_backwards once per operation
\* in the order On..O1; the call for Ok gets from_state = the given state with
\* O1..Ok applied and to_state = the given state with O1..O(k-1) applied.
C4_BackwardsOrderAndStates ==
    (method = "unapply" /\ ~collect_sql) =>
        /\ \A j \in 1..Len(dblog) :
              LET k == NOps - j + 1
              IN  /\ dblog[j].dir = "backwards"
                  /\ dblog[j].operation = k
                  /\ dblog[j].from_state = FoldStateForwards(entry, 1, k)
                  /\ dblog[j].to_state = FoldStateForwards(entry, 1, k - 1)
        /\ UnapplyReturned => Len(dblog) = NOps

C4_Witness ==
    /\ UnapplyReturned
    /\ ~collect_sql
    /\ NOps = 2
    /\ Len(dblog) = 2
    /\ entry # <<>>

\* The value of atomic_operation: operation.atomic, or migration.atomic unless
\* operation.atomic is explicitly False.
AtomicOperation(m, op) ==
    CASE op.atomic = "True" -> TRUE
      [] op.atomic = "False" -> FALSE
      [] op.atomic = "None" -> m.atomic

ForwardsCalls == {j \in 1..Len(dblog) : dblog[j].dir = "forwards"}

BackwardsCalls == {j \in 1..Len(dblog) : dblog[j].dir = "backwards"}

\* C5 (as stated): database_forwards runs in a per-operation transaction
\* whenever atomic_migration is false, and whenever atomic_operation is true in
\* a migration that is not wrapped atomically; otherwise it is called directly.
C5_ForwardsWrappedWheneverNoTransactionalDDL ==
    \A j \in ForwardsCalls :
        dblog[j].in_txn <=>
            \/ ~atomic_migration
            \/ (AtomicOperation(mig, mig.operations[dblog[j].operation])
                /\ ~atomic_migration)

\* C5 (amended): database_forwards runs in a per-operation transaction exactly
\* when atomic_migration is false and atomic_operation is true.
C5_ForwardsWrappedIffNotAtomicMigrationAndAtomicOperation ==
    \A j \in ForwardsCalls :
        dblog[j].in_txn <=>
            (~atomic_migration
             /\ AtomicOperation(mig, mig.operations[dblog[j].operation]))

C5_Witness ==
    /\ ~atomic_migration
    /\ Len(dblog) = 2
    /\ dblog[1].dir = "forwards"
    /\ dblog[2].dir = "forwards"
    /\ dblog[1].in_txn
    /\ ~dblog[2].in_txn

\* C6: unapply wraps an operation's database_backwards in a per-operation
\* transaction exactly when apply wraps that operation's database_forwards.
C6_UnapplyWrapsAsApply ==
    /\ \A k \in 1..NOps :
          (wrap_fwd[k] # "unset" /\ wrap_bwd[k] # "unset") => wrap_fwd[k] = wrap_bwd[k]
    /\ \A j \in BackwardsCalls :
          dblog[j].in_txn <=>
              apply_wraps(atomic_migration, mig, mig.operations[dblog[j].operation])

C6_Witness ==
    /\ NOps = 2
    /\ wrap_fwd[1] = "atomic"
    /\ wrap_bwd[1] = "atomic"
    /\ wrap_fwd[2] = "direct"
    /\ wrap_bwd[2] = "direct"

\* The keys whose most recent completed event is a record_applied: a call that
\* raised is no event.
RECURSIVE KeysAfter(_, _)
KeysAfter(h, n) ==
    IF n = 0 THEN {}
    ELSE LET e == h[n]
             before == KeysAfter(h, n - 1)
         IN  IF e.exc # "None" THEN before
             ELSE CASE e.op = "record_applied" -> before \cup {<<e.app, e.name>>}
                    [] e.op = "record_unapplied" -> before \ {<<e.app, e.name>>}
                    [] e.op = "flush" -> {}
                    [] OTHER -> before

RecorderCalls == 1..Len(history)

\* C7: after any sequence of record_applied, record_unapplied and flush calls
\* the key set of applied_migrations() is the set of keys whose most recent
\* completed event is a record_applied, also after repeated record_applied of
\* one key.
C7_AppliedKeysFollowEvents ==
    /\ DOMAIN applied_migrations(db) = KeysAfter(history, Len(history))
    /\ \A n \in RecorderCalls :
          history[n].op = "applied_migrations" =>
              history[n].keys = KeysAfter(history, n - 1)

C7_Witness ==
    /\ Len(history) = 4
    /\ history[1].op = "record_applied"
    /\ history[2].op = "record_applied"
    /\ history[3].op = "record_applied"
    /\ history[4].op = "record_unapplied"
    /\ <<history[2].app, history[2].name>> = <<history[1].app, history[1].name>>
    /\ history[3].app = history[1].app
    /\ history[3].name # history[1].name
    /\ <<history[4].app, history[4].name>> = <<history[1].app, history[1].name>>
    /\ DOMAIN applied_migrations(db) = {<<history[3].app, history[3].name>>}

\* C8: without the table applied_migrations() returns an empty mapping, raises
\* nothing and creates nothing; after a successful ensure_schema() has_table()
\* is true; ensure_schema() on an existing table creates nothing.
C8_MissingTableIsEmptyAndEnsureIsIdempotent ==
    \A n \in RecorderCalls :
        LET e == history[n]
        IN  /\ (e.op = "applied_migrations" /\ ~e.before.table) =>
                  e.keys = {} /\ e.exc = "None" /\ ~e.created /\ e.after = e.before
            /\ (e.op = "ensure_schema" /\ e.exc = "None") =>
                  /\ e.after.table
                  /\ (n < Len(history) /\ history[n + 1].op = "has_table")
                        => history[n + 1].returned
            /\ (e.op = "ensure_schema" /\ e.before.table) =>
                  e.exc = "None" /\ ~e.created /\ e.after = e.before

C8_Witness ==
    /\ Len(history) = 4
    /\ history[1].op = "applied_migrations"
    /\ history[1].keys = {}
    /\ history[2].op = "record_applied"
    /\ history[2].created
    /\ history[3].op = "ensure_schema"
    /\ ~history[3].created
    /\ history[4].op = "has_table"
    /\ history[4].returned
    /\ Len(db.rows) = 1

\* C9: when the table is absent and creating it fails with a database error,
\* ensure_schema(), record_applied and record_unapplied raise
\* MigrationSchemaMissing and no row is inserted or deleted.
C9_FailedCreationRaisesSchemaMissing ==
    \A n \in RecorderCalls :
        LET e == history[n]
        IN  (e.op \in {"ensure_schema", "record_applied", "record_unapplied"}
             /\ e.ddl_denied) =>
                /\ e.exc = "MigrationSchemaMissing"
                /\ e.after = e.before
                /\ ~e.created

C9_Witness ==
    /\ Len(history) = 3
    /\ history[1].op = "ensure_schema"
    /\ history[1].exc = "MigrationSchemaMissing"
    /\ history[2].op = "record_applied"
    /\ history[2].exc = "MigrationSchemaMissing"
    /\ history[3].op = "record_unapplied"
    /\ history[3].exc = "MigrationSchemaMissing"
    /\ db = EmptyDb

\* C10: record_applied and record_unapplied run ensure_schema() first: after
\* either returns normally the table exists, and on a connection without the
\* table (whose creation succeeds) record_unapplied creates it and leaves it
\* empty, record_applied creates it and leaves the one row.
C10_RecordCallsEnsureSchemaFirst ==
    \A n \in RecorderCalls :
        LET e == history[n]
        IN  /\ (e.op \in {"record_applied", "record_unapplied"} /\ e.exc = "None")
                  => e.after.table
            /\ (e.op = "record_unapplied" /\ ~e.before.table /\ ~e.ddl_denied) =>
                  /\ e.exc = "None"
                  /\ e.created
                  /\ e.after = [table |-> TRUE, rows |-> <<>>]
            /\ (e.op = "record_applied" /\ ~e.before.table /\ ~e.ddl_denied) =>
                  /\ e.exc = "None"
                  /\ e.created
                  /\ e.after = [table |-> TRUE, rows |-> <<Row(e.app, e.name)>>]

C10_Witness ==
    /\ Len(history) = 1
    /\ history[1].op = "record_unapplied"
    /\ history[1].exc = "None"
    /\ history[1].created
    /\ db = [table |-> TRUE, rows |-> <<>>]

\* C11: two Migration instances are equal iff app_label and name both match,
\* whatever their operations; equal instances have the same hash; a Migration
\* is never equal to an object that is not a Migration.
C11_EqualityIsByLabelAndName ==
    (pure_call.fn = "eq" /\ pure_call.done) =>
        LET a == pure_call.args.self
            b == pure_call.args.other
            r == pure_call.ret
        IN  /\ b.is_migration =>
                  (r.eq <=> (a.app_label = b.app_label /\ a.name = b.name))
            /\ (b.is_migration /\ r.eq) => r.hash_self = r.hash_other
            /\ ~b.is_migration => ~r.eq

C11_Witness ==
    /\ pure_call.fn = "eq"
    /\ pure_call.done
    /\ pure_call.args.other.is_migration
    /\ pure_call.args.self.operations # pure_call.args.other.operations
    /\ pure_call.ret.eq
    /\ pure_call.ret.hash_self = pure_call.ret.hash_other

\* The list an owner (the class, or a built instance) holds for a field.
OwnerRefs(owner) == IF owner = "class" THEN ClassLists ELSE instances[owner]

Owners == {"class"} \cup {n \in InstanceNames : instances[n] # NotBuilt}

\* C12: adding to, removing from or reordering a list of one instance changes
\* neither the class-level lists nor the lists of any other instance (nor the
\* other lists of that instance).
C12_InstancesOwnTheirLists ==
    /\ \A o1 \in Owners, o2 \in Owners, f \in Fields, g \in Fields :
          (o1 # o2 \/ f # g) => OwnerRefs(o1)[f] # OwnerRefs(o2)[g]
    /\ last_mut.count > 0 =>
          \A o \in Owners, g \in Fields :
              (o # last_mut.inst \/ g # last_mut.field) =>
                  (OwnerRefs(o)[g] <= Len(last_mut.before) =>
                      list_heap[OwnerRefs(o)[g]] = last_mut.before[OwnerRefs(o)[g]])

C12_Witness ==
    /\ last_mut.count = 2
    /\ last_mut.inst = "m1"
    /\ last_mut.field = "operations"
    /\ instances["m2"] # NotBuilt
    /\ list_heap[ClassLists.operations] = <<"x", "y">>
    /\ list_heap[instances["m2"].operations] = <<"x", "y">>
    /\ list_heap[instances["m1"].operations] = <<"y", "x", "y">>

MutateReturned == pc = "idle" /\ method = "mutate_state" /\ result.kind = "return"

\* C13: mutate_state(state, preserve=True) leaves the caller's state unchanged
\* and returns a distinct state equal to it with every state_forwards applied
\* in order; with preserve=False it applies them to the caller's state in
\* place and returns that same object.
C13_MutateStatePreserves ==
    MutateReturned =>
        /\ result.value = FoldStateForwards(entry, 1, NOps)
        /\ preserve =>
              /\ ~result.same_object
              /\ heap[project_state] = entry
        /\ ~preserve =>
              /\ result.same_object
              /\ heap[project_state] = result.value

C13_Witness ==
    /\ MutateReturned
    /\ preserve
    /\ NOps = 2
    /\ prev.method = "mutate_state"
    /\ prev.kind = "return"
    /\ entry = <<1, 2>>
    /\ result.value = <<1, 2, 1, 2>>
    /\ heap[project_state] = <<1, 2>>

DatabaseRaised ==
    /\ pc = "idle"
    /\ method \in {"apply", "unapply"}
    /\ result.kind = "raise"
    /\ result.exc = "DatabaseError"

LoggedOperations == [j \in 1..Len(dblog) |-> dblog[j].operation]

\* C14: a database_forwards / database_backwards that raises ends apply /
\* unapply with that very error; the call is the last one made, no operation's
\* database method is invoked twice in a run, and no state_forwards of a later
\* operation has been applied.
C14_DatabaseErrorPropagates ==
    /\ \A j \in 1..Len(dblog) :
          /\ \A k \in 1..Len(dblog) : dblog[j].operation = dblog[k].operation => j = k
          /\ dblog[j].outcome # "ok" =>
                /\ j = Len(dblog)
                /\ pc = "idle"
                /\ result.kind = "raise"
                /\ result.exc = dblog[j].outcome
                /\ result.operation = dblog[j].operation
    /\ DatabaseRaised =>
          /\ dblog # <<>>
          /\ dblog[Len(dblog)].outcome = "DatabaseError"
          /\ method = "apply" => heap[project_state] = entry \o LoggedOperations
          /\ method = "unapply" =>
                /\ heap[project_state] = entry
                /\ \A j \in 1..(Len(dblog) - 1) :
                      dblog[j].operation > dblog[j + 1].operation

C14_Witness ==
    /\ DatabaseRaised
    /\ method = "apply"
    /\ NOps = 2
    /\ Len(dblog) = 1
    /\ result.operation = 1
    /\ heap[project_state] = <<1>>

\* The operations whose database method completed in this run.
CompletedOperations == SelectSeq(dblog, LAMBDA e : e.outcome = "ok")

\* C15: apply and unapply never insert or delete bookkeeping rows: every step
\* leaves applied_migrations() as it was; when an operation fails, the calls
\* that completed before it stay made (nothing reverses them).
C15_RunLeavesBookkeepingAlone ==
    /\ [][db' = db /\ applied_migrations(db)' = applied_migrations(db)]_vars
    /\ [](DatabaseRaised =>
            /\ Len(CompletedOperations) = Len(dblog) - 1
            /\ \A j \in 1..Len(dblog) :
                  dblog[j].dir = (IF method = "apply" THEN "forwards" ELSE "backwards"))

C15_Witness ==
    /\ DatabaseRaised
    /\ method = "apply"
    /\ NOps = 2
    /\ Len(dblog) = 2
    /\ Len(CompletedOperations) = 1
    /\ DOMAIN applied_migrations(db) = {<<"app1", "0001">>}

\* The comment block of operation k, and what the operation leaves in
\* collected_sql once apply is past it.
CommentBlock(k) ==
    IF mig.operations[k].reduces_to_sql
    THEN <<Line("--", 0), Line("-- describe", k), Line("--", 0)>>
    ELSE <<Line("--", 0),
           Line("-- MIGRATION NOW PERFORMS OPERATION THAT CANNOT BE WRITTEN AS SQL:", 0),
           Line("-- describe", k), Line("--", 0)>>

RECURSIVE CollectedUpTo(_)
CollectedUpTo(k) ==
    IF k = 0 THEN <<>>
    ELSE CollectedUpTo(k - 1) \o CommentBlock(k)
         \o (IF mig.operations[k].reduces_to_sql THEN <<Line("sql", k)>> ELSE <<>>)

\* C16: in apply with collect_sql, an operation with reduces_to_sql=False never
\* has database_forwards called and leaves its four comment lines; the block of
\* Ok precedes everything produced for O(k+1).
C16_CollectSqlCommentsAndSkips ==
    (method = "apply" /\ collect_sql) =>
        /\ \A j \in 1..Len(dblog) : mig.operations[dblog[j].operation].reduces_to_sql
        /\ pc = "a_loop" => collected_sql = CollectedUpTo(i - 1)
        /\ pc \in {"a_clone", "a_sf", "a_db", "a_call"} =>
              collected_sql = CollectedUpTo(i - 1) \o CommentBlock(i)
        /\ (pc = "idle" /\ result.kind = "return") =>
              collected_sql = CollectedUpTo(NOps)
        /\ (pc = "idle" /\ result.kind = "raise") =>
              collected_sql = CollectedUpTo(result.operation - 1)
                                \o CommentBlock(result.operation)

C16_Witness ==
    /\ method = "apply"
    /\ collect_sql
    /\ pc = "idle"
    /\ result.kind = "return"
    /\ NOps = 2
    /\ ~mig.operations[1].reduces_to_sql
    /\ mig.operations[2].reduces_to_sql
    /\ Len(collected_sql) = 8
    /\ Len(dblog) = 1

ReduceReturned == pure_call.fn = "reduce" /\ pure_call.done

\* C17: reduce(other) is [other] when self is elidable (other elidable or
\* not), [self] when only other is elidable, and False when neither is.
C17_ReduceDefersToTheOther ==
    ReduceReturned =>
        LET self == pure_call.args.self
            other == pure_call.args.operation
            ret == pure_call.ret
        IN  /\ self.elidable => ret = [kind |-> "list", items |-> <<other>>]
            /\ (~self.elidable /\ other.elidable) =>
                  ret = [kind |-> "list", items |-> <<self>>]
            /\ (~self.elidable /\ ~other.elidable) => ret.kind = "False"

C17_Witness ==
    /\ ReduceReturned
    /\ pure_call.args.self = [id |-> "o1", elidable |-> TRUE]
    /\ pure_call.args.operation = [id |-> "o2", elidable |-> TRUE]
    /\ pure_call.ret.items = <<[id |-> "o2", elidable |-> TRUE]>>

RunReturned(m) == pc = "idle" /\ method = m /\ result.kind = "return"

\* C18: an operation that does not override state_forwards, database_forwards
\* or database_backwards raises NotImplementedError when that method is called;
\* so an apply that returns had every operation override state_forwards and
\* database_forwards, a mutate_state that returns had every operation override
\* state_forwards, and a NotImplementedError names an operation missing a method.
C18_AbstractOperationFailsTheRun ==
    /\ RunReturned("apply") =>
          \A k \in 1..NOps : {"state_forwards", "database_forwards"} \subseteq overrides[k]
    /\ RunReturned("mutate_state") =>
          \A k \in 1..NOps : "state_forwards" \in overrides[k]
    /\ (pc = "idle" /\ result.kind = "raise" /\ result.exc = "NotImplementedError") =>
          overrides[result.operation] # Methods

AllowMigrateModelReturned == pure_call.fn = "allow_migrate_model" /\ pure_call.done

\* C19: allow_migrate_model is False, the router never asked, for a proxy,
\* swapped-out or unmanaged model; otherwise it is the router's answer for the
\* alias.
C19_AllowMigrateModelGate ==
    AllowMigrateModelReturned =>
        LET model == pure_call.args.model
            ret == pure_call.ret
        IN  IF model.proxy \/ model.swapped \/ ~model.managed
            THEN ~ret.value /\ ~ret.router_consulted
            ELSE /\ ret.router_consulted
                 /\ ret.value = pure_call.args.router[pure_call.args.alias]

C19_Witness ==
    /\ AllowMigrateModelReturned
    /\ pure_call.args.model = [proxy |-> TRUE, swapped |-> FALSE, managed |-> TRUE]
    /\ pure_call.args.router[pure_call.args.alias]
    /\ ~pure_call.ret.value
    /\ ~pure_call.ret.router_consulted

SuggestNameReturned == pure_call.fn = "suggest_name" /\ pure_call.done

\* C20: suggest_name is the single operation's fragment when there is one
\* operation with a fragment; the fragments in sorted order joined by '_' when
\* there are several operations, all CreateModel; otherwise 'initial' when
\* initial is True and 'auto_<timestamp>' when it is False or None.
C20_SuggestNameCases ==
    SuggestNameReturned =>
        LET ops == pure_call.args.operations
            ret == pure_call.ret
            n == Len(ops)
        IN  /\ ~ret.none
            /\ IF n = 1 /\ ops[1].fragment # "None"
               THEN ret.str = <<ops[1].fragment>>
               ELSE IF n > 1 /\ \A k \in 1..n : ops[k].create_model
               THEN /\ Len(ret.str) = 2 * n - 1
                    /\ \A k \in 1..(n - 1) :
                          /\ ret.str[2 * k] = "_"
                          /\ Rank(ret.str[2 * k - 1]) <= Rank(ret.str[2 * k + 1])
                    /\ \A f \in Fragments :
                          Cardinality({k \in 1..n : ret.str[2 * k - 1] = f})
                            = Cardinality({k \in 1..n : ops[k].fragment = f})
               ELSE ret.str = (IF pure_call.args.initial = "True"
                               THEN <<"initial">>
                               ELSE <<"auto_", "timestamp">>)

C20_Witness ==
    /\ SuggestNameReturned
    /\ pure_call.args.operations
         = <<[create_model |-> TRUE, fragment |-> "book"],
             [create_model |-> TRUE, fragment |-> "author"]>>
    /\ pure_call.ret.str = <<"author", "_", "book">>

\* C22: apply without collect_sql handles O1..On in order; for Ok it snapshots
\* old_state, then runs state_forwards(Ok) on project_state, then
\* database_forwards(Ok) with from_state = the given state with O1..O(k-1)
\* applied and to_state = the given state with O1..Ok applied, all before
\* state_forwards(O(k+1)); it returns the object it was given, mutated in place.
C22_ApplyStepOrder ==
    (method = "apply" /\ ~collect_sql) =>
        /\ \A j \in 1..Len(dblog) :
              /\ dblog[j].dir = "forwards"
              /\ dblog[j].operation = j
              /\ dblog[j].from_state = FoldStateForwards(entry, 1, j - 1)
              /\ dblog[j].to_state = FoldStateForwards(entry, 1, j)
        /\ pc \in {"a_loop", "a_clone"} =>
              /\ Len(dblog) = i - 1
              /\ heap[project_state] = FoldStateForwards(entry, 1, i - 1)
        /\ pc = "a_sf" =>
              /\ Len(dblog) = i - 1
              /\ old_state # project_state
              /\ heap[old_state] = FoldStateForwards(entry, 1, i - 1)
              /\ heap[project_state] = FoldStateForwards(entry, 1, i - 1)
        /\ pc \in {"a_db", "a_call"} =>
              /\ Len(dblog) = i - 1
              /\ heap[old_state] = FoldStateForwards(entry, 1, i - 1)
              /\ heap[project_state] = FoldStateForwards(entry, 1, i)
        /\ ApplyReturned =>
              /\ Len(dblog) = NOps
              /\ result.same_object
              /\ result.value = FoldStateForwards(entry, 1, NOps)
              /\ heap[project_state] = result.value

C22_Witness ==
    /\ ApplyReturned
    /\ ~collect_sql
    /\ NOps = 2
    /\ entry = <<>>
    /\ Len(dblog) = 2
    /\ dblog[2].from_state = <<1>>
    /\ dblog[2].to_state = <<1, 2>>
    /\ result.same_object

\* The (operation.atomic, migration.atomic) pairs that make atomic_operation true.
AtomicPairs == {<<"True", TRUE>>, <<"True", FALSE>>, <<"None", TRUE>>}

\* C23: atomic_operation is true exactly for operation.atomic True, or
\* migration.atomic True with operation.atomic unset; an operation with
\* atomic=False is never atomic_operation: seen where it decides the wrapping,
\* in apply on an editor whose atomic_migration is false.
C23_AtomicOperationTable ==
    (method = "apply" /\ pc = "a_call" /\ ~atomic_migration) =>
        /\ txn <=> (<<mig.operations[i].atomic, mig.atomic>> \in AtomicPairs)
        /\ mig.operations[i].atomic = "False" => ~txn

C23_Witness ==
    /\ method = "apply"
    /\ pc = "a_call"
    /\ ~atomic_migration
    /\ mig.atomic
    /\ mig.operations[i].atomic = "False"
    /\ ~txn

\* C24: with atomic_migration true neither apply nor unapply opens a
\* per-operation transaction; a per-operation transaction is open only around
\* the database call of its operation, never while a state_forwards step or the
\* next loop iteration runs.
C24_NoPerOperationTransactionInOuterOne ==
    /\ atomic_migration =>
          /\ ~txn
          /\ \A j \in 1..Len(dblog) : ~dblog[j].in_txn
    /\ txn => pc \in {"a_call", "u_call"}
    /\ pc \in {"a_loop", "a_clone", "a_sf", "u_p1", "u_clone", "u_sf", "u_p2", "idle"}
          => ~txn

C24_Witness ==
    /\ UnapplyReturned
    /\ atomic_migration
    /\ mig.atomic
    /\ NOps = 2
    /\ mig.operations[1].atomic = "True"
    /\ Len(dblog) = 2
    /\ ~dblog[1].in_txn
    /\ ~dblog[2].in_txn

\* C26: unapply never mutates the state object it is given: at every step, and
\* after it returns or raises, the caller's state has the value it had at the
\* call; the object returned is the one given.
C26_UnapplyLeavesCallerState ==
    method = "unapply" =>
        /\ heap[project_state] = entry
        /\ pc \in {"u_sf", "u_p2", "u_db", "u_call"} => new_state # project_state \/ NOps = 0
        /\ UnapplyReturned => result.same_object

C26_Witness ==
    /\ method = "unapply"
    /\ pc = "idle"
    /\ result.exc = "IrreversibleError"
    /\ result.operation = 2
    /\ entry # <<>>
    /\ heap[project_state] = entry

\* C27: when database_forwards of Ok raises during apply, the caller's state
\* holds state_forwards of O1..Ok, the failed one included, while the database
\* calls that completed are those before Ok.
C27_StateOneAheadAfterFailure ==
    (DatabaseRaised /\ method = "apply") =>
        /\ heap[project_state] = FoldStateForwards(entry, 1, result.operation)
        /\ \A j \in 1..(Len(dblog) - 1) : dblog[j].outcome = "ok"
        /\ dblog[Len(dblog)].operation = result.operation

\* C28: flush makes no ensure_schema call: it never creates the table; on a
\* database without the table it ends with the database's error and changes
\* nothing, and with the table it deletes every row.
C28_FlushNeverCreatesTheTable ==
    \A n \in RecorderCalls :
        LET e == history[n]
        IN  e.op = "flush" =>
              /\ ~e.created
              /\ e.after.table = e.before.table
              /\ ~e.before.table => (e.exc = "DatabaseError" /\ e.after = e.before)
              /\ e.before.table => (e.exc = "None" /\ e.after.rows = <<>>)

C28_Witness ==
    /\ Len(history) = 2
    /\ history[1].op = "flush"
    /\ history[1].exc = "DatabaseError"
    /\ history[2].op = "record_unapplied"
    /\ history[2].exc = "None"
    /\ ~history[1].after.table
    /\ history[2].after.table

\* The keyword names of the constructor call, and the value passed under one.
PassedNames == {operation_log.passed[3][j][1] : j \in 1..Len(operation_log.passed[3])}

PassedValue(n) ==
    CHOOSE v \in ArgValues : \E j \in 1..Len(operation_log.passed[3]) :
        operation_log.passed[3][j] = <<n, v>>

CreateReturned == pure_call.fn = "create" /\ pure_call.done

\* C25: create picks the only subclass that does not declare default=False;
\* failing that the only one declaring default=True; several declaring
\* default=True raise RuntimeError; with none selected the base AppConfig class
\* is used with the entry as app name.
C25_CreateSelectsTheDefaultConfig ==
    CreateReturned =>
        LET cands == pure_call.args.candidates
            ret == pure_call.ret
            NotFalse == {k \in 1..Len(cands) : cands[k] # "False"}
            DeclaredTrue == {k \in 1..Len(cands) : cands[k] = "True"}
        IN  IF Cardinality(NotFalse) = 1
            THEN ret.kind = "class" /\ ret.class \in NotFalse
            ELSE IF Cardinality(DeclaredTrue) = 1
            THEN ret.kind = "class" /\ ret.class \in DeclaredTrue
            ELSE IF Cardinality(DeclaredTrue) > 1
            THEN ret.kind = "raise" /\ ret.exc = "RuntimeError"
            ELSE ret.kind = "base" /\ ret.app_name = pure_call.args.entry

C25_Witness ==
    /\ CreateReturned
    /\ pure_call.args.candidates = <<"unset", "True", "False">>
    /\ pure_call.ret.kind = "class"
    /\ pure_call.ret.class = 2

HandlerCalls == 1..Len(handler_log)

InSettings(a) == \E k \in 1..Len(handler.settings) : handler.settings[k] = a

\* What is stored for alias a after the first n calls, told from the calls
\* alone: the last assignment, deletion or creation for that alias.
RECURSIVE StoredAfter(_, _)
StoredAfter(n, a) ==
    IF n = 0 THEN NoAttribute
    ELSE LET e == handler_log[n]
             prior == StoredAfter(n - 1, a)
             made == \E k \in 1..Len(e.created) :
                        /\ e.created[k] = a
                        /\ (e.exc = "None" \/ k < Len(e.created))
         IN  CASE e.op = "setitem" /\ e.alias = a -> e.value
               [] e.op = "delitem" /\ e.alias = a -> NoAttribute
               [] e.op = "getitem" /\ e.alias = a /\ made -> e.ret
               [] e.op = "all" /\ made -> [made_for |-> a, serial |-> n]
               [] OTHER -> prior

\* C29: a lookup returns what is stored for the alias without calling
\* create_connection; it calls create_connection, once, and stores the result
\* only when nothing is stored and the alias is in settings; lookups of one
\* alias with no assignment or deletion between them return the same object.
C29_LookupCachesTheConnection ==
    /\ \A a \in HandlerAliases : connections[a] = StoredAfter(Len(handler_log), a)
    /\ \A n \in HandlerCalls :
          LET e == handler_log[n]
              stored == StoredAfter(n - 1, e.alias)
          IN  e.op = "getitem" =>
                /\ stored # NoAttribute =>
                      (e.exc = "None" /\ e.ret = stored /\ e.created = <<>>)
                /\ e.created # <<>> =>
                      (stored = NoAttribute /\ InSettings(e.alias) /\ e.created = <<e.alias>>)
                /\ (stored = NoAttribute /\ InSettings(e.alias)) =>
                      /\ e.created = <<e.alias>>
                      /\ e.exc = "None" =>
                            (e.ret # NoAttribute /\ e.after[e.alias] = e.ret /\ e.ret.serial = n)
    /\ \A m, n \in HandlerCalls :
          (/\ m < n
           /\ handler_log[m].op = "getitem" /\ handler_log[n].op = "getitem"
           /\ handler_log[m].alias = handler_log[n].alias
           /\ handler_log[m].exc = "None" /\ handler_log[n].exc = "None"
           /\ \A j \in (m + 1)..(n - 1) :
                 \/ handler_log[j].op = "getitem"
                 \/ handler_log[j].op = "all"
                 \/ handler_log[j].alias # handler_log[m].alias)
            => handler_log[m].ret = handler_log[n].ret

C29_Witness ==
    /\ Len(handler_log) = 3
    /\ handler_log[1].op = "getitem"
    /\ handler_log[1].alias = "default"
    /\ handler_log[1].created = <<"default">>
    /\ handler_log[1].exc = "None"
    /\ handler_log[2].op = "all"
    /\ handler_log[2].created = <<"other">>
    /\ handler_log[3].op = "getitem"
    /\ handler_log[3].alias = "default"
    /\ handler_log[3].created = <<>>
    /\ handler_log[3].ret = handler_log[1].ret

\* C30: looking up an alias with nothing stored that is not in settings raises
\* the handler's exception_class, calls no create_connection and stores
\* nothing; all() returns the connection of each alias of settings, in the
\* order settings yields them.
C30_UnknownAliasRaises ==
    \A n \in HandlerCalls :
        LET e == handler_log[n]
        IN  /\ (e.op = "getitem" /\ StoredAfter(n - 1, e.alias) = NoAttribute
                /\ ~InSettings(e.alias)) =>
                  /\ e.exc = handler.exception_class
                  /\ e.created = <<>>
                  /\ e.after = e.before
            /\ (e.op = "all" /\ e.exc = "None") =>
                  /\ Len(e.ret_list) = Len(handler.settings)
                  /\ \A k \in 1..Len(handler.settings) :
                        /\ e.ret_list[k] # NoAttribute
                        /\ e.ret_list[k] = StoredAfter(n, handler.settings[k])

C30_Witness ==
    /\ Len(handler_log) = 3
    /\ handler.settings = <<"other", "default">>
    /\ handler.exception_class = "InvalidCacheBackendError"
    /\ handler_log[1].op = "getitem"
    /\ handler_log[1].alias = "missing"
    /\ handler_log[1].exc = "InvalidCacheBackendError"
    /\ handler_log[2].op = "getitem"
    /\ handler_log[2].alias = "missing"
    /\ handler_log[2].exc = "InvalidCacheBackendError"
    /\ handler_log[3].op = "all"
    /\ Len(handler_log[3].ret_list) = 2
    /\ handler_log[3].ret_list[1].made_for = "other"
    /\ connections["missing"] = NoAttribute

IncludeCalled == pure_call.fn = "include" /\ pure_call.done

\* The URLconf include() is about, and the app_name available to it: the
\* module's attribute if it has one, else the second item of a 2-tuple.
IncludedUrlconf == pure_call.args.arg.items[1]

AvailableAppName ==
    IF IncludedUrlconf.app_name # "absent" THEN IncludedUrlconf.app_name
    ELSE IF pure_call.args.arg.is_tuple /\ Len(pure_call.args.arg.items) = 2
    THEN pure_call.args.arg.items[2]
    ELSE "None"

\* C31: include returns (urlconf_module, app_name, namespace or app_name), the
\* module's app_name attribute winning over a 2-tuple's; it raises
\* ImproperlyConfigured when a namespace is given with no app_name available,
\* when arg is a tuple of length other than 2, and when any included pattern is
\* a LocalePrefixPattern.
C31_IncludeContract ==
    IncludeCalled =>
        LET arg == pure_call.args.arg
            ns == pure_call.args.namespace
            ret == pure_call.ret
            given == ns \notin {"None", ""}
            named == AvailableAppName \notin {"None", ""}
        IN  /\ ret.kind = "return" =>
                  /\ ret.urlconf_module.patterns = IncludedUrlconf.patterns
                  /\ ret.urlconf_module.given_as \in {"module", "patterns"}
                  /\ ret.app_name = AvailableAppName
                  /\ ret.namespace = (IF given THEN ns ELSE AvailableAppName)
            /\ (arg.is_tuple /\ Len(arg.items) # 2) =>
                  (ret.kind = "raise" /\ ret.exc = "ImproperlyConfigured")
            /\ (given /\ ~named /\ IncludedUrlconf.given_as # "unimportable_str") =>
                  (ret.kind = "raise" /\ ret.exc = "ImproperlyConfigured")
            /\ (/\ IncludedUrlconf.given_as # "unimportable_str"
                /\ \E k \in 1..Len(IncludedUrlconf.patterns) :
                      IncludedUrlconf.patterns[k] = "LocalePrefixPattern") =>
                  (ret.kind = "raise" /\ ret.exc = "ImproperlyConfigured")

====
